---- MODULE Spec2Model ----
(***************************************************************************)
(* A model of the OpenCollection translation layer (schema validator and   *)
(* document<->domain adapter), the auth resolver and the request executor  *)
(* of the reccy API client.                                                *)
(*                                                                         *)
(* These state machines share the variables below:                         *)
(*   SpecAdapter  one request file going through parse -> fromDocument ->  *)
(*                toDocument -> fromDocument;                              *)
(*   SpecAbsent   the same path on files with absent optional fields;      *)
(*   SpecBuild    buildUrl / buildHeaders / buildBody applied to one       *)
(*                request drawn from a bounded set;                        *)
(*   Spec         executeRequest calls running concurrently on the event   *)
(*                loop (FairSpec adds the event loop's fairness);          *)
(*   SpecAuth     one resolveAuth call;                                    *)
(*   SpecRoot     one opencollection.yml written and parsed;               *)
(*   SpecApp      the handlers of App on a project folder;                 *)
(*   SpecSend     handleSend calls on an opened project.                   *)
(***************************************************************************)
EXTENDS Integers, Sequences, FiniteSets, TLC

(***************************************************************************)
(* JavaScript values.  A value is a record whose only field names its      *)
(* type, so that values of different types compare unequal.                *)
(***************************************************************************)
Undef == [u |-> "undefined"]
Null == [u |-> "null"]
Str(s) == [s |-> s]
Num(n) == [n |-> n]
Bool(b) == [b |-> b]
Arr(q) == [a |-> q]
Obj(r) == [o |-> r]

IsString(v) == DOMAIN v = {"s"}
IsArray(v) == DOMAIN v = {"a"}

\* typeof value === "object" && value !== null  (arrays are objects)
isObject(v) == DOMAIN v = {"o"} \/ DOMAIN v = {"a"}

\* v.k : undefined when v has no such property
Prop(v, k) == IF DOMAIN v = {"o"} /\ k \in DOMAIN v.o THEN v.o[k] ELSE Undef

\* v?.k
OptProp(v, k) == IF v \in {Undef, Null} THEN Undef ELSE Prop(v, k)

\* a ?? b
Nullish(a, b) == IF a \in {Undef, Null} THEN b ELSE a

\* !v
Falsy(v) == v \in {Undef, Null, Str(""), Num(0), Bool(FALSE)}

(***************************************************************************)
(* opencollection/adapter                                                  *)
(***************************************************************************)
defaultSettings ==
    [encodeUrl |-> Bool(TRUE), timeout |-> Num(0),
     followRedirects |-> Bool(TRUE), maxRedirects |-> Num(5)]

\* an adapter that knows no more auth kinds than the domain model: a kind it
\* does not map is loaded as no auth
toDomainAuthUnmappedAsNone(auth) ==
    IF auth = Str("inherit") THEN [type |-> Str("inherit")]
    ELSE IF Falsy(auth) \/ Prop(auth, "type") = Str("none")
    THEN [type |-> Str("none")]
    ELSE IF Prop(auth, "type") = Str("bearer")
    THEN [type |-> Str("bearer"), token |-> Nullish(Prop(auth, "token"), Str(""))]
    ELSE IF Prop(auth, "type") = Str("basic")
    THEN [type |-> Str("basic"),
          username |-> Nullish(Prop(auth, "username"), Str("")),
          password |-> Nullish(Prop(auth, "password"), Str(""))]
    ELSE IF Prop(auth, "type") = Str("apikey")
    THEN [type |-> Str("apikey"),
          key |-> Nullish(Prop(auth, "key"), Str("x-api-key")),
          value |-> Nullish(Prop(auth, "value"), Str("")),
          placement |-> IF Prop(auth, "placement") = Str("query")
                        THEN Str("query") ELSE Str("header")]
    ELSE [type |-> Str("none")]

toDomainAuth(auth) ==
    IF auth = Str("inherit") THEN [type |-> Str("inherit")]
    ELSE IF Falsy(auth) \/ Prop(auth, "type") = Str("none")
    THEN [type |-> Str("none")]
    ELSE IF Prop(auth, "type") = Str("bearer")
    THEN [type |-> Str("bearer"), token |-> Nullish(Prop(auth, "token"), Str(""))]
    ELSE IF Prop(auth, "type") = Str("basic")
    THEN [type |-> Str("basic"),
          username |-> Nullish(Prop(auth, "username"), Str("")),
          password |-> Nullish(Prop(auth, "password"), Str(""))]
    ELSE [type |-> Str("apikey"),
          key |-> Nullish(Prop(auth, "key"), Str("x-api-key")),
          value |-> Nullish(Prop(auth, "value"), Str("")),
          placement |-> IF Prop(auth, "placement") = Str("query")
                        THEN Str("query") ELSE Str("header")]

\* A slip the round trip would expose: inherit written back as an object.
toOpenCollectionAuthInheritAsObject(auth) ==
    IF auth.type = Str("none") \/ auth.type = Str("inherit")
    THEN Obj([type |-> auth.type])
    ELSE Obj(auth)

toOpenCollectionAuth(auth) ==
    IF auth.type = Str("inherit") THEN Str("inherit")
    ELSE IF auth.type = Str("none") THEN Obj([type |-> Str("none")])
    ELSE IF auth.type = Str("bearer")
    THEN Obj([type |-> Str("bearer"), token |-> auth.token])
    ELSE IF auth.type = Str("basic")
    THEN Obj([type |-> Str("basic"), username |-> auth.username,
              password |-> auth.password])
    ELSE Obj([type |-> Str("apikey"), key |-> auth.key, value |-> auth.value,
              placement |-> auth.placement])

toDomainBody(document) ==
    IF Falsy(Prop(Prop(document, "http"), "body"))
    THEN [type |-> Str("none"), data |-> Str("")]
    ELSE [type |-> Prop(Prop(Prop(document, "http"), "body"), "type"),
          data |-> Nullish(Prop(Prop(Prop(document, "http"), "body"), "data"),
                           Str(""))]

\* a body written whatever its type
toOpenCollectionBodyAlwaysObject(body) ==
    Obj([type |-> body.type, data |-> body.data])

toOpenCollectionBody(body) ==
    IF body.type = Str("none") THEN Undef
    ELSE Obj([type |-> body.type, data |-> body.data])

\* settings defaulted as a whole: the defaults only when the document has no
\* settings at all
fromOpenCollectionDocumentWholeSettings(document, filePath) ==
    [id |-> filePath,
     name |-> Prop(Prop(document, "info"), "name"),
     seq |-> Nullish(Prop(Prop(document, "info"), "seq"), Num(0)),
     filePath |-> filePath,
     method |-> Prop(Prop(document, "http"), "method"),
     url |-> Prop(Prop(document, "http"), "url"),
     headers |-> Nullish(Prop(Prop(document, "http"), "headers"), Arr(<<>>)),
     params |-> Nullish(Prop(Prop(document, "http"), "params"), Arr(<<>>)),
     body |-> toDomainBody(document),
     auth |-> toDomainAuth(Prop(Prop(document, "http"), "auth")),
     settings |->
        IF Prop(document, "settings") \in {Undef, Null}
        THEN defaultSettings
        ELSE [encodeUrl |-> Prop(Prop(document, "settings"), "encodeUrl"),
              timeout |-> Prop(Prop(document, "settings"), "timeout"),
              followRedirects |->
                  Prop(Prop(document, "settings"), "followRedirects"),
              maxRedirects |-> Prop(Prop(document, "settings"), "maxRedirects")]]

fromOpenCollectionDocument(document, filePath) ==
    [id |-> filePath,
     name |-> Prop(Prop(document, "info"), "name"),
     seq |-> Nullish(Prop(Prop(document, "info"), "seq"), Num(0)),
     filePath |-> filePath,
     method |-> Prop(Prop(document, "http"), "method"),
     url |-> Prop(Prop(document, "http"), "url"),
     headers |-> Nullish(Prop(Prop(document, "http"), "headers"), Arr(<<>>)),
     params |-> Nullish(Prop(Prop(document, "http"), "params"), Arr(<<>>)),
     body |-> toDomainBody(document),
     auth |-> toDomainAuth(Prop(Prop(document, "http"), "auth")),
     settings |->
        [encodeUrl |-> Nullish(OptProp(Prop(document, "settings"), "encodeUrl"),
                               defaultSettings.encodeUrl),
         timeout |-> Nullish(OptProp(Prop(document, "settings"), "timeout"),
                             defaultSettings.timeout),
         followRedirects |->
             Nullish(OptProp(Prop(document, "settings"), "followRedirects"),
                     defaultSettings.followRedirects),
         maxRedirects |->
             Nullish(OptProp(Prop(document, "settings"), "maxRedirects"),
                     defaultSettings.maxRedirects)]]

toOpenCollectionDocument(request) ==
    Obj([info |-> Obj([name |-> request.name, type |-> Str("http"),
                       seq |-> request.seq]),
         http |-> Obj([method |-> request.method,
                       url |-> request.url,
                       headers |-> request.headers,
                       params |-> request.params,
                       body |-> toOpenCollectionBody(request.body),
                       auth |-> toOpenCollectionAuth(request.auth)]),
         settings |-> Obj(request.settings)])

(***************************************************************************)
(* opencollection/parser                                                   *)
(***************************************************************************)
\* the method set with one more member
supportedHttpMethodsWithFetch ==
    {"GET", "POST", "PUT", "PATCH", "DELETE", "OPTIONS", "HEAD", "TRACE",
     "CONNECT", "FETCH"}

supportedHttpMethods ==
    {"GET", "POST", "PUT", "PATCH", "DELETE", "OPTIONS", "HEAD", "TRACE",
     "CONNECT"}

supportedAuthTypes ==
    {"none", "inherit", "basic", "bearer", "apikey", "digest", "oauth2",
     "awsv4", "ntlm"}

supportedBodyTypes ==
    {"json", "text", "xml", "form-urlencoded", "multipart-form", "graphql"}

Throw(message, field) == [ok |-> FALSE, error |-> message, field |-> field]

\* parseOpenCollectionRequest with the checks of http.auth moved before the
\* check of the http.method value
parseOpenCollectionRequestAuthFirst(parsed) ==
    LET http == Prop(parsed, "http")
        body == Prop(http, "body")
        auth == Prop(http, "auth")
    IN  IF ~isObject(parsed)
        THEN Throw("Invalid request YAML: expected an object.", "")
        ELSE IF ~isObject(Prop(parsed, "info"))
                \/ Prop(Prop(parsed, "info"), "type") # Str("http")
        THEN Throw("Invalid request YAML: info.type must be 'http'.", "info.type")
        ELSE IF ~isObject(http)
        THEN Throw("Invalid request YAML: missing http section.", "http")
        ELSE IF ~IsString(Prop(http, "method")) \/ ~IsString(Prop(http, "url"))
        THEN Throw("Invalid request YAML: http.method and http.url are required.",
                   "http.method/http.url")
        ELSE IF auth # Undef /\ auth # Str("inherit")
                /\ (~isObject(auth) \/ ~IsString(Prop(auth, "type")))
        THEN Throw("Invalid request YAML: http.auth must be 'inherit' or an auth object.",
                   "http.auth")
        ELSE IF auth # Undef /\ auth # Str("inherit")
                /\ Prop(auth, "type").s \notin supportedAuthTypes
        THEN Throw("Invalid request YAML: unsupported http.auth.type",
                   "http.auth.type")
        ELSE IF Prop(http, "method").s \notin supportedHttpMethods
        THEN Throw("Invalid request YAML: unsupported http.method", "http.method")
        ELSE IF Prop(http, "headers") # Undef /\ ~IsArray(Prop(http, "headers"))
        THEN Throw("Invalid request YAML: http.headers must be an array.",
                   "http.headers")
        ELSE IF Prop(http, "params") # Undef /\ ~IsArray(Prop(http, "params"))
        THEN Throw("Invalid request YAML: http.params must be an array.",
                   "http.params")
        ELSE IF body # Undef /\ (~isObject(body) \/ ~IsString(Prop(body, "type")))
        THEN Throw("Invalid request YAML: http.body must be an object with a type.",
                   "http.body")
        ELSE IF body # Undef /\ Prop(body, "type").s \notin supportedBodyTypes
        THEN Throw("Invalid request YAML: unsupported http.body.type",
                   "http.body.type")
        ELSE [ok |-> TRUE, document |-> parsed]

\* The checks of parseOpenCollectionRequest in source order, applied to the
\* value yaml.parse returned; the first failing check throws.
parseOpenCollectionRequest(parsed) ==
    LET http == Prop(parsed, "http")
        body == Prop(http, "body")
        auth == Prop(http, "auth")
    IN  IF ~isObject(parsed)
        THEN Throw("Invalid request YAML: expected an object.", "")
        ELSE IF ~isObject(Prop(parsed, "info"))
                \/ Prop(Prop(parsed, "info"), "type") # Str("http")
        THEN Throw("Invalid request YAML: info.type must be 'http'.", "info.type")
        ELSE IF ~isObject(http)
        THEN Throw("Invalid request YAML: missing http section.", "http")
        ELSE IF ~IsString(Prop(http, "method")) \/ ~IsString(Prop(http, "url"))
        THEN Throw("Invalid request YAML: http.method and http.url are required.",
                   "http.method/http.url")
        ELSE IF Prop(http, "method").s \notin supportedHttpMethods
        THEN Throw("Invalid request YAML: unsupported http.method", "http.method")
        ELSE IF Prop(http, "headers") # Undef /\ ~IsArray(Prop(http, "headers"))
        THEN Throw("Invalid request YAML: http.headers must be an array.",
                   "http.headers")
        ELSE IF Prop(http, "params") # Undef /\ ~IsArray(Prop(http, "params"))
        THEN Throw("Invalid request YAML: http.params must be an array.",
                   "http.params")
        ELSE IF body # Undef /\ (~isObject(body) \/ ~IsString(Prop(body, "type")))
        THEN Throw("Invalid request YAML: http.body must be an object with a type.",
                   "http.body")
        ELSE IF body # Undef /\ Prop(body, "type").s \notin supportedBodyTypes
        THEN Throw("Invalid request YAML: unsupported http.body.type",
                   "http.body.type")
        ELSE IF auth # Undef /\ auth # Str("inherit")
                /\ (~isObject(auth) \/ ~IsString(Prop(auth, "type")))
        THEN Throw("Invalid request YAML: http.auth must be 'inherit' or an auth object.",
                   "http.auth")
        ELSE IF auth # Undef /\ auth # Str("inherit")
                /\ Prop(auth, "type").s \notin supportedAuthTypes
        THEN Throw("Invalid request YAML: unsupported http.auth.type",
                   "http.auth.type")
        ELSE [ok |-> TRUE, document |-> parsed]

(***************************************************************************)
(* Strings whose characters matter (URLs, query keys and values, header    *)
(* names and values) are sequences of one-character strings.               *)
(***************************************************************************)
\* the printable ASCII characters in code order: Ascii[i] has code i + 31
\* (quotation mark, apostrophe, backslash and grave accent are spelled out)
Ascii ==
    <<" ", "!", "QUOT", "#", "$", "%", "&", "APOS", "(", ")", "*", "+", ",", "-", ".", "/",
      "0", "1", "2", "3", "4", "5", "6", "7", "8", "9", ":", ";", "<", "=", ">", "?",
      "@", "A", "B", "C", "D", "E", "F", "G", "H", "I", "J", "K", "L", "M", "N", "O",
      "P", "Q", "R", "S", "T", "U", "V", "W", "X", "Y", "Z", "[", "BACKSLASH", "]", "^", "_",
      "GRAVE", "a", "b", "c", "d", "e", "f", "g", "h", "i", "j", "k", "l", "m", "n", "o",
      "p", "q", "r", "s", "t", "u", "v", "w", "x", "y", "z", "{", "|", "}", "~">>

UpperLetters == {Ascii[i] : i \in 34..59}
Letters == UpperLetters \cup {Ascii[i] : i \in 66..91}
Digits == {"0", "1", "2", "3", "4", "5", "6", "7", "8", "9"}
HexDigits == Digits \cup {"A", "B", "C", "D", "E", "F", "a", "b", "c", "d", "e", "f"}

\* <<character, high hex digit, low hex digit>> of its percent-escape
PercentEscapes ==
    {<<" ", "2", "0">>, <<"#", "2", "3">>, <<"%", "2", "5">>, <<"&", "2", "6">>,
     <<"+", "2", "B">>, <<"/", "2", "F">>, <<":", "3", "A">>, <<"=", "3", "D">>,
     <<"?", "3", "F">>, <<"A", "4", "1">>}

EscapeOf(c) ==
    LET e == CHOOSE e \in PercentEscapes : e[1] = c IN <<"%", e[2], e[3]>>

CharOf(h, l) ==
    (CHOOSE e \in PercentEscapes : e[2] = h /\ e[3] = l)[1]

IsEscapeAt(s, i) ==
    /\ s[i] = "%"
    /\ i + 2 <= Len(s)
    /\ s[i + 1] \in HexDigits
    /\ s[i + 2] \in HexDigits

RECURSIVE IndexFrom(_, _, _)
\* the first index >= i of s that holds c, or 0
IndexFrom(s, c, i) ==
    IF i > Len(s) THEN 0
    ELSE IF s[i] = c THEN i
    ELSE IndexFrom(s, c, i + 1)

RECURSIVE Split(_, _)
\* s.split(c)
Split(s, c) ==
    LET i == IndexFrom(s, c, 1)
    IN  IF i = 0 THEN <<s>>
        ELSE <<SubSeq(s, 1, i - 1)>> \o Split(SubSeq(s, i + 1, Len(s)), c)

RECURSIVE Join(_, _)
Join(parts, c) ==
    IF Len(parts) = 0 THEN <<>>
    ELSE IF Len(parts) = 1 THEN parts[1]
    ELSE parts[1] \o <<c>> \o Join(Tail(parts), c)

\* the application/x-www-form-urlencoded serializer URLSearchParams uses
FormUnreserved == Letters \cup Digits \cup {"*", "-", ".", "_"}

RECURSIVE FormEncode(_)
FormEncode(s) ==
    IF s = <<>> THEN <<>>
    ELSE (IF Head(s) \in FormUnreserved THEN <<Head(s)>>
          ELSE IF Head(s) = " " THEN <<"+">>
          ELSE EscapeOf(Head(s)))
         \o FormEncode(Tail(s))

RECURSIVE FormDecodeFrom(_, _)
\* the form-urlencoded parser: "+" is a space, a well-formed escape is its
\* character, a stray "%" stays
FormDecodeFrom(s, i) ==
    IF i > Len(s) THEN <<>>
    ELSE IF s[i] = "+" THEN <<" ">> \o FormDecodeFrom(s, i + 1)
    ELSE IF IsEscapeAt(s, i)
    THEN <<CharOf(s[i + 1], s[i + 2])>> \o FormDecodeFrom(s, i + 3)
    ELSE <<s[i]>> \o FormDecodeFrom(s, i + 1)

FormDecode(s) == FormDecodeFrom(s, 1)

\* one name=value piece of a query string, as the list entry <<name, value>>
ParsePair(piece) ==
    LET i == IndexFrom(piece, "=", 1)
    IN  IF i = 0 THEN <<FormDecode(piece), <<>>>>
        ELSE <<FormDecode(SubSeq(piece, 1, i - 1)),
               FormDecode(SubSeq(piece, i + 1, Len(piece)))>>

RECURSIVE ParsePairs(_)
ParsePairs(pieces) ==
    IF pieces = <<>> THEN <<>>
    ELSE IF Head(pieces) = <<>> THEN ParsePairs(Tail(pieces))
    ELSE <<ParsePair(Head(pieces))>> \o ParsePairs(Tail(pieces))

\* new URLSearchParams(search): the list of <<name, value>> entries
ParseQuery(search) == ParsePairs(Split(search, "&"))

RECURSIVE SerializePairs(_)
SerializePairs(list) ==
    IF list = <<>> THEN <<>>
    ELSE <<FormEncode(list[1][1]) \o <<"=">> \o FormEncode(list[1][2])>>
         \o SerializePairs(Tail(list))

\* URLSearchParams.prototype.toString
SerializeQuery(list) == Join(SerializePairs(list), "&")

RECURSIVE RemoveName(_, _)
RemoveName(list, name) ==
    IF list = <<>> THEN <<>>
    ELSE (IF list[1][1] = name THEN <<>> ELSE <<list[1]>>)
         \o RemoveName(Tail(list), name)

RECURSIVE FirstWithName(_, _, _)
\* the index of the first entry named name at or after i, or 0
FirstWithName(list, name, i) ==
    IF i > Len(list) THEN 0
    ELSE IF list[i][1] = name THEN i
    ELSE FirstWithName(list, name, i + 1)

\* URLSearchParams.prototype.set: the first entry named name takes the value
\* and the other entries of that name go; with no such entry, append
SearchParamsSet(list, name, value) ==
    LET i == FirstWithName(list, name, 1)
    IN  IF i = 0 THEN Append(list, <<name, value>>)
        ELSE SubSeq(list, 1, i - 1) \o <<(<<name, value>>)>>
             \o RemoveName(SubSeq(list, i + 1, Len(list)), name)

\* URLSearchParams.prototype.get: the first value of name, or null
SearchParamsGet(list, name) ==
    LET i == FirstWithName(list, name, 1)
    IN  IF i = 0 THEN Null ELSE Str(list[i][2])

RECURSIVE QueryStateEncode(_)
\* the URL parser's query state: a space is percent-encoded, the rest of the
\* modelled characters are kept
QueryStateEncode(s) ==
    IF s = <<>> THEN <<>>
    ELSE (IF Head(s) = " " THEN EscapeOf(" ") ELSE <<Head(s)>>)
         \o QueryStateEncode(Tail(s))

\* The URL parser on an absolute URL: what precedes the first "?" and the
\* query after it.  A string with no scheme is not a URL (new URL throws).
HasScheme(s) ==
    LET i == IndexFrom(s, ":", 1)
    IN  i > 1 /\ \A j \in 1..(i - 1) : s[j] \in Letters

ParseUrl(s) ==
    LET q == IndexFrom(s, "?", 1)
    IN  IF ~HasScheme(s) THEN [ok |-> FALSE, error |-> "TypeError: Invalid URL"]
        ELSE IF q = 0 THEN [ok |-> TRUE, base |-> s, search |-> <<>>]
        ELSE [ok |-> TRUE, base |-> SubSeq(s, 1, q - 1),
              search |-> QueryStateEncode(SubSeq(s, q + 1, Len(s)))]

\* URL.prototype.toString
UrlToString(url) ==
    IF url.search = <<>> THEN url.base ELSE url.base \o <<"?">> \o url.search

\* url.searchParams.set(name, value): the list is updated and the URL's query
\* is rewritten from it
UrlSearchParamsSet(url, name, value) ==
    [url EXCEPT !.search =
        SerializeQuery(SearchParamsSet(ParseQuery(url.search), name, value))]

\* the characters decodeURI never produces from an escape
UriReserved == {";", "/", "?", ":", "@", "&", "=", "+", "$", ",", "#"}

RECURSIVE DecodeUriFrom(_, _)
DecodeUriFrom(s, i) ==
    IF i > Len(s) THEN <<>>
    ELSE IF s[i] # "%" THEN <<s[i]>> \o DecodeUriFrom(s, i + 1)
    ELSE IF CharOf(s[i + 1], s[i + 2]) \in UriReserved
    THEN SubSeq(s, i, i + 2) \o DecodeUriFrom(s, i + 3)
    ELSE <<CharOf(s[i + 1], s[i + 2])>> \o DecodeUriFrom(s, i + 3)

UriWellFormed(s) == \A i \in 1..Len(s) : s[i] = "%" => IsEscapeAt(s, i)

\* decodeURI: every escape of a character outside UriReserved is replaced by
\* the character; a "%" that starts no escape throws URIError
decodeURI(s) ==
    IF UriWellFormed(s) THEN [ok |-> TRUE, value |-> DecodeUriFrom(s, 1)]
    ELSE [ok |-> FALSE, error |-> "URIError: URI malformed"]

(***************************************************************************)
(* opencollection/parser: the collection root file.  A YAML text is        *)
(* modelled by its nodes: a mapping from keys to scalars, or one scalar;   *)
(* a scalar is plain or quoted.                                            *)
(***************************************************************************)
YamlPlain(text) == [style |-> "plain", text |-> text]
YamlQuoted(text) == [style |-> "quoted", text |-> text]
YamlMap(entries) == [entries |-> entries]
YamlScalar(node) == [scalar |-> node]

Whitespace == {" "}

\* String.prototype.trim
RECURSIVE TrimStart(_)
TrimStart(s) ==
    IF s # <<>> /\ s[1] \in Whitespace THEN TrimStart(Tail(s)) ELSE s

RECURSIVE TrimEnd(_)
TrimEnd(s) ==
    IF s # <<>> /\ s[Len(s)] \in Whitespace
    THEN TrimEnd(SubSeq(s, 1, Len(s) - 1))
    ELSE s

Trim(s) == TrimEnd(TrimStart(s))

\* the plain scalars the YAML core schema reads as numbers (decimal notation)
IsYamlNumber(text) ==
    /\ \E i \in 1..Len(text) : text[i] \in Digits
    /\ \A i \in 1..Len(text) : text[i] \in Digits \cup {"."}
    /\ Cardinality({i \in 1..Len(text) : text[i] = "."}) <= 1

YamlNullTexts == {<<>>, <<"~">>, <<"n", "u", "l", "l">>}
YamlTrueText == <<"t", "r", "u", "e">>
YamlFalseText == <<"f", "a", "l", "s", "e">>

\* the value yaml.parse gives a scalar: a quoted scalar is a string, a plain
\* one is resolved by the core schema
ResolveScalar(node) ==
    IF node.style = "quoted" THEN Str(node.text)
    ELSE IF node.text \in YamlNullTexts THEN Null
    ELSE IF node.text = YamlTrueText THEN Bool(TRUE)
    ELSE IF node.text = YamlFalseText THEN Bool(FALSE)
    ELSE IF IsYamlNumber(node.text) THEN Num(node.text)
    ELSE Str(node.text)

\* yaml.parse
YamlParse(content) ==
    IF "entries" \in DOMAIN content
    THEN Obj([k \in DOMAIN content.entries |-> ResolveScalar(content.entries[k])])
    ELSE ResolveScalar(content.scalar)

\* yaml.stringify of a string: plain when the plain scalar reads back as
\* that string, quoted otherwise
StringifyString(text) ==
    IF ResolveScalar(YamlPlain(text)) = Str(text) /\ Trim(text) = text
    THEN YamlPlain(text)
    ELSE YamlQuoted(text)

CollectionText == <<"c", "o", "l", "l", "e", "c", "t", "i", "o", "n">>
DefaultVersion == <<"0", ".", "1">>

\* parseOpenCollectionRoot without the test of version.trim()
parseOpenCollectionRootKeepsBlankVersion(content) ==
    LET parsed == YamlParse(content)
    IN  IF ~isObject(parsed)
        THEN Throw("Invalid opencollection.yml: expected an object.", "")
        ELSE IF Prop(parsed, "type") # Str(CollectionText)
        THEN Throw("Invalid opencollection.yml: type must be 'collection'.", "type")
        ELSE IF ~IsString(Prop(parsed, "name"))
                \/ Trim(Prop(parsed, "name").s) = <<>>
        THEN Throw("Invalid opencollection.yml: name must be a non-empty string.",
                   "name")
        ELSE [ok |-> TRUE,
              document |->
                  [version |-> IF IsString(Prop(parsed, "version"))
                               THEN Prop(parsed, "version")
                               ELSE Str(DefaultVersion),
                   name |-> Prop(parsed, "name"),
                   type |-> Str(CollectionText)]]

parseOpenCollectionRoot(content) ==
    LET parsed == YamlParse(content)
    IN  IF ~isObject(parsed)
        THEN Throw("Invalid opencollection.yml: expected an object.", "")
        ELSE IF Prop(parsed, "type") # Str(CollectionText)
        THEN Throw("Invalid opencollection.yml: type must be 'collection'.", "type")
        ELSE IF ~IsString(Prop(parsed, "name"))
                \/ Trim(Prop(parsed, "name").s) = <<>>
        THEN Throw("Invalid opencollection.yml: name must be a non-empty string.",
                   "name")
        ELSE [ok |-> TRUE,
              document |->
                  [version |-> IF IsString(Prop(parsed, "version"))
                                  /\ Trim(Prop(parsed, "version").s) # <<>>
                               THEN Prop(parsed, "version")
                               ELSE Str(DefaultVersion),
                   name |-> Prop(parsed, "name"),
                   type |-> Str(CollectionText)]]

\* serializeOpenCollectionRoot: takes the name only
serializeOpenCollectionRoot(name) ==
    YamlMap([version |-> StringifyString(DefaultVersion),
             name |-> StringifyString(name),
             type |-> StringifyString(CollectionText)])

(***************************************************************************)
(* services/authResolver                                                   *)
(***************************************************************************)
\* the one modelled character outside Latin-1 (U+20AC)
Euro == "EURO"

CodeOf(c) ==
    IF c = Euro THEN 8364
    ELSE 31 + (CHOOSE i \in 1..Len(Ascii) : Ascii[i] = c)

Base64Alphabet ==
    <<"A", "B", "C", "D", "E", "F", "G", "H", "I", "J", "K", "L", "M", "N", "O", "P",
      "Q", "R", "S", "T", "U", "V", "W", "X", "Y", "Z", "a", "b", "c", "d", "e", "f",
      "g", "h", "i", "j", "k", "l", "m", "n", "o", "p", "q", "r", "s", "t", "u", "v",
      "w", "x", "y", "z", "0", "1", "2", "3", "4", "5", "6", "7", "8", "9", "+", "/">>

Sextet(n) == Base64Alphabet[n + 1]

RECURSIVE Base64(_)
\* base64 of a sequence of bytes
Base64(bytes) ==
    IF Len(bytes) = 0 THEN <<>>
    ELSE IF Len(bytes) = 1
    THEN <<Sextet(bytes[1] \div 4), Sextet((bytes[1] % 4) * 16), "=", "=">>
    ELSE IF Len(bytes) = 2
    THEN <<Sextet(bytes[1] \div 4),
           Sextet((bytes[1] % 4) * 16 + bytes[2] \div 16),
           Sextet((bytes[2] % 16) * 4), "=">>
    ELSE <<Sextet(bytes[1] \div 4),
           Sextet((bytes[1] % 4) * 16 + bytes[2] \div 16),
           Sextet((bytes[2] % 16) * 4 + bytes[3] \div 64),
           Sextet(bytes[3] % 64)>>
         \o Base64(SubSeq(bytes, 4, Len(bytes)))

\* btoa: throws on a character above U+00FF
btoa(s) ==
    IF \E i \in 1..Len(s) : CodeOf(s[i]) > 255
    THEN [ok |-> FALSE, error |-> "InvalidCharacterError"]
    ELSE [ok |-> TRUE, value |-> Base64([i \in 1..Len(s) |-> CodeOf(s[i])])]

toBasicToken(username, password) == btoa(username \o <<":">> \o password)

AuthorizationName ==
    <<"A", "u", "t", "h", "o", "r", "i", "z", "a", "t", "i", "o", "n">>
BearerPrefix == <<"B", "e", "a", "r", "e", "r", " ">>
BasicPrefix == <<"B", "a", "s", "i", "c", " ">>

\* resolveAuth without the test of auth.token in the bearer branch
resolveAuthBearerAlways(auth) ==
    IF auth.type = "bearer"
    THEN [ok |-> TRUE,
          headers |-> <<(<<AuthorizationName, BearerPrefix \o auth.token>>)>>,
          query |-> <<>>]
    ELSE IF auth.type = "basic"
    THEN IF toBasicToken(auth.username, auth.password).ok
         THEN [ok |-> TRUE,
               headers |-> <<(<<AuthorizationName,
                                BasicPrefix
                                \o toBasicToken(auth.username, auth.password).value>>)>>,
               query |-> <<>>]
         ELSE [ok |-> FALSE,
               error |-> toBasicToken(auth.username, auth.password).error]
    ELSE IF auth.type = "apikey" /\ auth.key # <<>>
    THEN IF auth.placement = "query"
         THEN [ok |-> TRUE, headers |-> <<>>,
               query |-> <<(<<auth.key, auth.value>>)>>]
         ELSE [ok |-> TRUE, headers |-> <<(<<auth.key, auth.value>>)>>,
               query |-> <<>>]
    ELSE [ok |-> TRUE, headers |-> <<>>, query |-> <<>>]

\* resolveAuth without the test of auth.placement in the apikey branch
resolveAuthApiKeyInHeader(auth) ==
    IF auth.type = "bearer" /\ auth.token # <<>>
    THEN [ok |-> TRUE,
          headers |-> <<(<<AuthorizationName, BearerPrefix \o auth.token>>)>>,
          query |-> <<>>]
    ELSE IF auth.type = "basic"
    THEN IF toBasicToken(auth.username, auth.password).ok
         THEN [ok |-> TRUE,
               headers |-> <<(<<AuthorizationName,
                                BasicPrefix
                                \o toBasicToken(auth.username, auth.password).value>>)>>,
               query |-> <<>>]
         ELSE [ok |-> FALSE,
               error |-> toBasicToken(auth.username, auth.password).error]
    ELSE IF auth.type = "apikey" /\ auth.key # <<>>
    THEN [ok |-> TRUE, headers |-> <<(<<auth.key, auth.value>>)>>,
          query |-> <<>>]
    ELSE [ok |-> TRUE, headers |-> <<>>, query |-> <<>>]

\* resolveAuth: headers are the entries of result.headers, query those of
\* result.query; ok is FALSE when the call throws.
resolveAuth(auth) ==
    IF auth.type = "bearer" /\ auth.token # <<>>
    THEN [ok |-> TRUE,
          headers |-> <<(<<AuthorizationName, BearerPrefix \o auth.token>>)>>,
          query |-> <<>>]
    ELSE IF auth.type = "basic"
    THEN IF toBasicToken(auth.username, auth.password).ok
         THEN [ok |-> TRUE,
               headers |-> <<(<<AuthorizationName,
                                BasicPrefix
                                \o toBasicToken(auth.username, auth.password).value>>)>>,
               query |-> <<>>]
         ELSE [ok |-> FALSE,
               error |-> toBasicToken(auth.username, auth.password).error]
    ELSE IF auth.type = "apikey" /\ auth.key # <<>>
    THEN IF auth.placement = "query"
         THEN [ok |-> TRUE, headers |-> <<>>,
               query |-> <<(<<auth.key, auth.value>>)>>]
         ELSE [ok |-> TRUE, headers |-> <<(<<auth.key, auth.value>>)>>,
               query |-> <<>>]
    ELSE [ok |-> TRUE, headers |-> <<>>, query |-> <<>>]

(***************************************************************************)
(* services/requestExecutor: construction of URL, headers and body         *)
(***************************************************************************)
RECURSIVE SetQueryParamsAlsoDisabled(_, _)
\* the loop over request.params without the test of param.disabled
SetQueryParamsAlsoDisabled(url, params) ==
    IF params = <<>> THEN url
    ELSE IF Head(params).type # "query" \/ Head(params).name = <<>>
    THEN SetQueryParamsAlsoDisabled(url, Tail(params))
    ELSE SetQueryParamsAlsoDisabled(
             UrlSearchParamsSet(url, Head(params).name, Head(params).value),
             Tail(params))

RECURSIVE SetQueryParams(_, _)
\* the loop over request.params
SetQueryParams(url, params) ==
    IF params = <<>> THEN url
    ELSE IF ~Falsy(Head(params).disabled) \/ Head(params).type # "query"
            \/ Head(params).name = <<>>
    THEN SetQueryParams(url, Tail(params))
    ELSE SetQueryParams(UrlSearchParamsSet(url, Head(params).name, Head(params).value),
                        Tail(params))

RECURSIVE SetQueryEntries(_, _)
\* the loop over auth.query.entries()
SetQueryEntries(url, entries) ==
    IF entries = <<>> THEN url
    ELSE SetQueryEntries(UrlSearchParamsSet(url, Head(entries)[1], Head(entries)[2]),
                         Tail(entries))

\* buildUrl up to its return statement: the URL object after the params and
\* the auth entries were set; ok is FALSE when new URL or resolveAuth throws
AssembleUrl(req) ==
    IF ~ParseUrl(req.url).ok
    THEN [ok |-> FALSE, error |-> ParseUrl(req.url).error]
    ELSE IF ~resolveAuth(req.auth).ok
    THEN [ok |-> FALSE, error |-> resolveAuth(req.auth).error]
    ELSE [ok |-> TRUE,
          url |-> SetQueryEntries(SetQueryParams(ParseUrl(req.url), req.params),
                                  resolveAuth(req.auth).query)]

buildUrl(req) ==
    IF ~AssembleUrl(req).ok THEN AssembleUrl(req)
    ELSE IF req.settings.encodeUrl
    THEN [ok |-> TRUE, value |-> UrlToString(AssembleUrl(req).url)]
    ELSE decodeURI(UrlToString(AssembleUrl(req).url))

\* the header-name characters Headers accepts
HeaderNameChars == Letters \cup Digits \cup {"-", "_", "."}

ValidHeaderName(name) ==
    name # <<>> /\ \A i \in 1..Len(name) : name[i] \in HeaderNameChars

LowerChar(c) ==
    IF c \in UpperLetters THEN Ascii[CodeOf(c) + 32 - 31] ELSE c

\* header names compare byte-lowercased
Lower(name) == [i \in 1..Len(name) |-> LowerChar(name[i])]

\* a container that compares names case-sensitively
HeadersSetCaseSensitive(headers, name, value) ==
    IF ~headers.ok THEN headers
    ELSE IF ~ValidHeaderName(name)
    THEN [ok |-> FALSE, error |-> "TypeError: Invalid header name"]
    ELSE [ok |-> TRUE, list |-> SearchParamsSet(headers.list, name, value)]

\* Headers.prototype.set on a list of <<lower-cased name, value>>: replaces
\* the value kept for the name, or appends; ok is FALSE (TypeError) on a name
\* that is no token
HeadersSet(headers, name, value) ==
    IF ~headers.ok THEN headers
    ELSE IF ~ValidHeaderName(name)
    THEN [ok |-> FALSE, error |-> "TypeError: Invalid header name"]
    ELSE [ok |-> TRUE,
          list |-> SearchParamsSet(headers.list, Lower(name), value)]

RECURSIVE SetHeaders(_, _)
\* the loop over request.headers
SetHeaders(headers, entries) ==
    IF entries = <<>> THEN headers
    ELSE IF ~Falsy(Head(entries).disabled) \/ Head(entries).name = <<>>
    THEN SetHeaders(headers, Tail(entries))
    ELSE SetHeaders(HeadersSet(headers, Head(entries).name, Head(entries).value),
                    Tail(entries))

RECURSIVE SetHeaderEntries(_, _)
\* the loop over Object.entries(auth.headers)
SetHeaderEntries(headers, entries) ==
    IF entries = <<>> THEN headers
    ELSE SetHeaderEntries(HeadersSet(headers, Head(entries)[1], Head(entries)[2]),
                          Tail(entries))

buildHeaders(req) ==
    IF ~SetHeaders([ok |-> TRUE, list |-> <<>>], req.headers).ok
    THEN SetHeaders([ok |-> TRUE, list |-> <<>>], req.headers)
    ELSE IF ~resolveAuth(req.auth).ok
    THEN [ok |-> FALSE, error |-> resolveAuth(req.auth).error]
    ELSE SetHeaderEntries(SetHeaders([ok |-> TRUE, list |-> <<>>], req.headers),
                          resolveAuth(req.auth).headers)

\* buildBody without the test for HEAD
buildBodyAlsoForHead(req) ==
    IF req.body.type = "none" \/ req.method = "GET" THEN Undef
    ELSE Str(req.body.data)

\* buildBody: Undef is "no body"
buildBody(req) ==
    IF req.body.type = "none" \/ req.method = "GET" \/ req.method = "HEAD"
    THEN Undef
    ELSE Str(req.body.data)

(***************************************************************************)
(* State                                                                   *)
(***************************************************************************)
VARIABLES
    \* one request file on its way through the adapter
    yamlValue,        \* what yaml.parse returned for the file's text
    filePath,         \* the file's path
    loadStage,        \* "text", "rejected", "parsed", "loaded", "saved", "reloaded"
    document,         \* parseOpenCollectionRequest's result
    request,          \* fromOpenCollectionDocument(document, filePath)
    savedDocument,    \* toOpenCollectionDocument(request)
    reloadedRequest,  \* fromOpenCollectionDocument(savedDocument, filePath)
    parseError,       \* the Error parseOpenCollectionRequest threw, if any
    \* one executeRequest call up to its fetch(...) expression
    buildRequest,     \* the ApiRequest passed in
    buildStage,       \* "idle", "request", "built"
    urlObject,        \* buildUrl's local url at its return statement
    fetchUrl,         \* buildUrl(request)
    fetchHeaders,     \* buildHeaders(request)
    fetchBody,        \* buildBody(request)
    \* executeRequest calls running on the event loop, per call
    callRequest,      \* the ApiRequest the call was given
    pc,               \* "idle", "fetching", "reading", "resolved", "rejected"
    controllers,      \* AbortControllers the call created
    signalReason,     \* controller.signal.reason, Undef until aborted
    timer,            \* timeoutHandle: "none", "armed", "fired", "cleared"
    attempts,         \* fetch calls the call issued
    fetchArgs,        \* the arguments of its fetch call
    startedAt,        \* the local startedAt
    durationMs,       \* the local durationMs
    response,         \* the Response fetch resolved with
    outcome,          \* how the returned promise settled
    now,              \* performance.now()
    \* history of the run, for stating the properties
    headersAt,        \* when the call's response headers arrived
    bodyAt,           \* when the call's response body was fully read
    abortedBy,        \* the calls whose timer aborted this call's controller
    cause,            \* why the call was rejected
    \* one resolveAuth call
    authConfig,       \* the AuthConfig passed in
    authStage,        \* "idle", "config", "returned", "threw"
    authResult,       \* what the call returned, or the error it threw
    \* one opencollection.yml on its way through the root parser
    rootValue,        \* the root document to be written, if the file is written
    rootContent,      \* the text of the file
    rootStage,        \* "idle", "value", "file", "parsed", "rejected"
    rootDocument,     \* what parseOpenCollectionRoot returned
    rootError,        \* the Error it threw
    \* the application
    disk,             \* the request files of the project folder, by path
    project,          \* state.project
    selectedRequestId,\* state.selectedRequestId
    draftRequest,     \* useDraftRequest's draftRequest
    appError,         \* state.error
    pendingOpen,      \* a handleOpenProject awaiting openProject
    pendingCreate,    \* a handleCreateRequest awaiting createRequest
    pendingSave,      \* a handleSave awaiting saveRequest
    pendingDelete,    \* a handleDeleteRequest awaiting deleteRequest
    \* handleSend
    sending,          \* state.sending
    sendResponse,     \* state.response
    sendPc,           \* per handleSend call: "idle", "awaiting", "done"
    sendPayload       \* per handleSend call: the payload given to executeRequest

adapterVars ==
    <<yamlValue, filePath, loadStage, document, request, savedDocument,
      reloadedRequest, parseError>>

buildVars ==
    <<buildRequest, buildStage, urlObject, fetchUrl, fetchHeaders, fetchBody>>

execVars ==
    <<callRequest, pc, controllers, signalReason, timer, attempts, fetchArgs,
      startedAt, durationMs, response, outcome, now, headersAt, bodyAt,
      abortedBy, cause>>

authVars == <<authConfig, authStage, authResult>>

rootVars == <<rootValue, rootContent, rootStage, rootDocument, rootError>>

appVars ==
    <<disk, project, selectedRequestId, draftRequest, appError, pendingOpen,
      pendingCreate, pendingSave, pendingDelete>>

sendVars == <<sending, sendResponse, sendPc, sendPayload>>

vars == <<adapterVars, buildVars, execVars, authVars, rootVars, appVars, sendVars>>

\* the two executeRequest calls that may run concurrently
Calls == {"call1", "call2"}

AdapterIdle ==
    /\ yamlValue = Undef
    /\ filePath = Undef
    /\ loadStage = "idle"
    /\ document = Undef
    /\ request = Undef
    /\ savedDocument = Undef
    /\ reloadedRequest = Undef
    /\ parseError = Undef

ExecIdle ==
    /\ callRequest = [c \in Calls |-> Undef]
    /\ pc = [c \in Calls |-> "idle"]
    /\ controllers = [c \in Calls |-> 0]
    /\ signalReason = [c \in Calls |-> Undef]
    /\ timer = [c \in Calls |-> "none"]
    /\ attempts = [c \in Calls |-> 0]
    /\ fetchArgs = [c \in Calls |-> Undef]
    /\ startedAt = [c \in Calls |-> Undef]
    /\ durationMs = [c \in Calls |-> Undef]
    /\ response = [c \in Calls |-> Undef]
    /\ outcome = [c \in Calls |-> Undef]
    /\ now = 0
    /\ headersAt = [c \in Calls |-> Undef]
    /\ bodyAt = [c \in Calls |-> Undef]
    /\ abortedBy = [c \in Calls |-> {}]
    /\ cause = [c \in Calls |-> "none"]

BuildIdle ==
    /\ buildRequest = Undef
    /\ buildStage = "idle"
    /\ urlObject = Undef
    /\ fetchUrl = Undef
    /\ fetchHeaders = Undef
    /\ fetchBody = Undef

AuthIdle ==
    /\ authConfig = Undef
    /\ authStage = "idle"
    /\ authResult = Undef

RootIdle ==
    /\ rootValue = Undef
    /\ rootContent = Undef
    /\ rootStage = "idle"
    /\ rootDocument = Undef
    /\ rootError = Undef

AppIdle ==
    /\ disk = Undef
    /\ project = Null
    /\ selectedRequestId = Null
    /\ draftRequest = Null
    /\ appError = Null
    /\ pendingOpen = Null
    /\ pendingCreate = Null
    /\ pendingSave = Null
    /\ pendingDelete = Null

\* the handleSend calls that may be under way at a time
MaxSends == 2
Sends == 1..MaxSends

SendIdle ==
    /\ sending = FALSE
    /\ sendResponse = Null
    /\ sendPc = [s \in Sends |-> "idle"]
    /\ sendPayload = [s \in Sends |-> Null]

(***************************************************************************)
(* The request files the adapter machine is run on: every combination of   *)
(* the field values below, valid and invalid.                              *)
(***************************************************************************)
InfoValues ==
    {Obj([name |-> Str("Get Users"), type |-> Str("http"), seq |-> Num(2)]),
     Obj([name |-> Str("Get Users"), type |-> Str("http")]),
     Obj([name |-> Str("Users"), type |-> Str("folder"), seq |-> Num(1)])}

MethodValues == {Undef, Str("GET"), Str("POST"), Str("FETCH")}

UrlValues == {Undef, Str("https://example.com/users")}

HeadersValues ==
    {Undef,
     Arr(<<Obj([name |-> Str("Accept"), value |-> Str("*/*")])>>),
     Str("Accept: */*")}

ParamsValues ==
    {Undef,
     Arr(<<Obj([name |-> Str("page"), value |-> Str("1"), type |-> Str("query")])>>),
     Null}

BodyValues ==
    {Undef,
     Obj([type |-> Str("json")]),
     Obj([type |-> Str("text"), data |-> Str("hello")]),
     Obj([type |-> Str("yaml"), data |-> Str("a: 1")]),
     Obj([data |-> Str("hello")])}

AuthValues ==
    {Undef,
     Str("inherit"),
     Str("bearer"),
     Obj([type |-> Str("none")]),
     Obj([type |-> Str("bearer")]),
     Obj([type |-> Str("bearer"), token |-> Str("abc123")]),
     Obj([type |-> Str("basic"), username |-> Str("jamie")]),
     Obj([type |-> Str("apikey")]),
     Obj([type |-> Str("apikey"), key |-> Str("api_key"), value |-> Str("abc"),
          placement |-> Str("query")]),
     Obj([type |-> Str("digest"), username |-> Str("jamie")]),
     Obj([type |-> Str("kerberos")])}

SettingsValues ==
    {Undef, Null}
    \cup {Obj([encodeUrl |-> e, timeout |-> t, followRedirects |-> f,
               maxRedirects |-> m]) :
            e \in {Undef, Bool(FALSE)}, t \in {Undef, Num(1500)},
            f \in {Undef, Bool(FALSE)}, m \in {Undef, Num(0)}}

HttpValues ==
    {Undef}
    \cup {Obj([method |-> m, url |-> u, headers |-> h, params |-> p,
               body |-> b, auth |-> a]) :
            m \in MethodValues, u \in UrlValues, h \in HeadersValues,
            p \in ParamsValues, b \in BodyValues, a \in AuthValues}

YamlValues ==
    {Str("just text")}
    \cup {Obj([info |-> i, http |-> h, settings |-> s]) :
            i \in InfoValues, h \in HttpValues, s \in SettingsValues}

FilePaths == {Str("requests/get-users.yml"), Str("requests/orders.yml")}

(***************************************************************************)
(* The adapter machine: projectStorage's load path (parse, then            *)
(* fromOpenCollectionDocument) followed by its save path                   *)
(* (toOpenCollectionDocument) and a second load of what was saved.         *)
(***************************************************************************)
AdapterInit ==
    /\ yamlValue \in YamlValues
    /\ filePath \in FilePaths
    /\ loadStage = "text"
    /\ document = Undef
    /\ request = Undef
    /\ savedDocument = Undef
    /\ reloadedRequest = Undef
    /\ parseError = Undef
    /\ BuildIdle
    /\ AppIdle
    /\ SendIdle
    /\ ExecIdle
    /\ AuthIdle
    /\ RootIdle

ParseAccept ==
    /\ loadStage = "text"
    /\ parseOpenCollectionRequest(yamlValue).ok
    /\ loadStage' = "parsed"
    /\ document' = parseOpenCollectionRequest(yamlValue).document
    /\ UNCHANGED <<yamlValue, filePath, request, savedDocument, reloadedRequest,
                   parseError>>
    /\ UNCHANGED <<buildVars, execVars, authVars, rootVars, appVars, sendVars>>

ParseReject ==
    /\ loadStage = "text"
    /\ ~parseOpenCollectionRequest(yamlValue).ok
    /\ loadStage' = "rejected"
    /\ parseError' = [message |-> parseOpenCollectionRequest(yamlValue).error,
                      field |-> parseOpenCollectionRequest(yamlValue).field]
    /\ UNCHANGED <<yamlValue, filePath, document, request, savedDocument,
                   reloadedRequest>>
    /\ UNCHANGED <<buildVars, execVars, authVars, rootVars, appVars, sendVars>>

FromDocument ==
    /\ loadStage = "parsed"
    /\ loadStage' = "loaded"
    /\ request' = fromOpenCollectionDocument(document, filePath)
    /\ UNCHANGED <<yamlValue, filePath, document, savedDocument, reloadedRequest,
                   parseError>>
    /\ UNCHANGED <<buildVars, execVars, authVars, rootVars, appVars, sendVars>>

ToDocument ==
    /\ loadStage = "loaded"
    /\ loadStage' = "saved"
    /\ savedDocument' = toOpenCollectionDocument(request)
    /\ UNCHANGED <<yamlValue, filePath, document, request, reloadedRequest,
                   parseError>>
    /\ UNCHANGED <<buildVars, execVars, authVars, rootVars, appVars, sendVars>>

FromSavedDocument ==
    /\ loadStage = "saved"
    /\ loadStage' = "reloaded"
    /\ reloadedRequest' = fromOpenCollectionDocument(savedDocument, filePath)
    /\ UNCHANGED <<yamlValue, filePath, document, request, savedDocument,
                   parseError>>
    /\ UNCHANGED <<buildVars, execVars, authVars, rootVars, appVars, sendVars>>

AdapterNext ==
    \/ ParseAccept
    \/ ParseReject
    \/ FromDocument
    \/ ToDocument
    \/ FromSavedDocument

SpecAdapter == AdapterInit /\ [][AdapterNext]_vars

\* C1: for every document the parser accepts and every file path, loading
\* the document written back from a loaded request gives that request
\* again: fromDocument(toDocument(fromDocument(d, p)), p) = fromDocument(d, p).
RoundTripStable ==
    loadStage = "reloaded" => reloadedRequest = request

\* C1's case: a document with absent optional fields (defaults were
\* materialised) has gone through the whole cycle.
RoundTripWitness ==
    /\ loadStage = "reloaded"
    /\ Prop(document, "settings") = Undef
    /\ Prop(Prop(document, "http"), "auth") = Str("inherit")
    /\ Prop(Prop(document, "http"), "body") = Undef
    /\ request.settings = defaultSettings

ParseAccepted == loadStage \in {"parsed", "loaded", "saved", "reloaded"}

ClaimedHttpMethods ==
    {"GET", "POST", "PUT", "PATCH", "DELETE", "OPTIONS", "HEAD", "TRACE",
     "CONNECT"}

ClaimedBodyTypes ==
    {"json", "text", "xml", "form-urlencoded", "multipart-form", "graphql"}

ClaimedAuthTypes ==
    {"none", "inherit", "basic", "bearer", "apikey", "digest", "oauth2",
     "awsv4", "ntlm"}

\* v is a string naming a member of S
StrIn(v, S) == IsString(v) /\ v.s \in S

\* the parts of a parsed file the rules look at
InfoOf(v) == Prop(v, "info")
HttpOf(v) == Prop(v, "http")
MethodOf(v) == Prop(HttpOf(v), "method")
BodyOf(v) == Prop(HttpOf(v), "body")
AuthOf(v) == Prop(HttpOf(v), "auth")

\* C15: parseOpenCollectionRequest never returns a document holding an
\* unsupported enum value and never replaces a value: whatever it returns is
\* the parsed value itself, with http.method, a present body's type and the
\* type of a present auth object in the supported sets; a text whose
\* http.method is the first thing wrong with it is rejected with the
\* "unsupported http.method" message.
ParsedEnumsSupported ==
    /\ ParseAccepted =>
          /\ document = yamlValue
          /\ StrIn(MethodOf(document), ClaimedHttpMethods)
          /\ BodyOf(document) # Undef =>
                StrIn(Prop(BodyOf(document), "type"), ClaimedBodyTypes)
          /\ AuthOf(document) \notin {Undef, Str("inherit")} =>
                StrIn(Prop(AuthOf(document), "type"), ClaimedAuthTypes)
    /\ (/\ loadStage = "rejected"
        /\ Prop(InfoOf(yamlValue), "type") = Str("http")
        /\ IsString(Prop(HttpOf(yamlValue), "url"))
        /\ IsString(MethodOf(yamlValue))
        /\ MethodOf(yamlValue).s \notin ClaimedHttpMethods) =>
          parseError.message = "Invalid request YAML: unsupported http.method"

\* C15's case: a file with method FETCH (and an unsupported body type and
\* auth type) was rejected for its method.
ParsedEnumsWitness ==
    /\ loadStage = "rejected"
    /\ MethodOf(yamlValue) = Str("FETCH")
    /\ Prop(BodyOf(yamlValue), "type") = Str("yaml")
    /\ Prop(AuthOf(yamlValue), "type") = Str("kerberos")
    /\ parseError.message = "Invalid request YAML: unsupported http.method"
    /\ document = Undef

\* the rules of the validator in the order the claim gives them
RuleOrder ==
    <<"info.type", "http", "http.method/http.url", "http.method",
      "http.headers", "http.params", "http.body", "http.auth">>

\* v violates the rule named r
Violates(v, r) ==
    CASE r = "info.type" ->
            ~isObject(InfoOf(v)) \/ Prop(InfoOf(v), "type") # Str("http")
      [] r = "http" -> ~isObject(HttpOf(v))
      [] r = "http.method/http.url" ->
            ~IsString(MethodOf(v)) \/ ~IsString(Prop(HttpOf(v), "url"))
      [] r = "http.method" ->
            IsString(MethodOf(v)) /\ MethodOf(v).s \notin ClaimedHttpMethods
      [] r = "http.headers" ->
            Prop(HttpOf(v), "headers") # Undef
            /\ ~IsArray(Prop(HttpOf(v), "headers"))
      [] r = "http.params" ->
            Prop(HttpOf(v), "params") # Undef
            /\ ~IsArray(Prop(HttpOf(v), "params"))
      [] r = "http.body" ->
            BodyOf(v) # Undef
            /\ ~StrIn(Prop(BodyOf(v), "type"), ClaimedBodyTypes)
      [] r = "http.auth" ->
            AuthOf(v) \notin {Undef, Str("inherit")}
            /\ ~StrIn(Prop(AuthOf(v), "type"), ClaimedAuthTypes)

ViolatedRules(v) == {i \in 1..Len(RuleOrder) : Violates(v, RuleOrder[i])}

FirstViolatedRule(v) ==
    RuleOrder[CHOOSE i \in ViolatedRules(v) : \A j \in ViolatedRules(v) : i <= j]

\* the rule an error's field belongs to
RuleOfField(field) ==
    IF field = "http.body.type" THEN "http.body"
    ELSE IF field = "http.auth.type" THEN "http.auth"
    ELSE field

\* C16: parseOpenCollectionRequest fails fast: the error of a rejected file
\* (one that parsed to an object) is the one of the first rule it violates,
\* in the order info.type, http section, http.method/http.url presence,
\* http.method value, http.headers, http.params, http.body, http.auth; and a
\* rejected file yields no document and no request.
FailsFast ==
    loadStage = "rejected" =>
        /\ document = Undef
        /\ request = Undef
        /\ isObject(yamlValue) =>
              /\ ViolatedRules(yamlValue) # {}
              /\ RuleOfField(parseError.field) = FirstViolatedRule(yamlValue)

\* C16's case: a file violating the rules of http.method, http.headers,
\* http.body and http.auth together was rejected.
FailsFastWitness ==
    /\ loadStage = "rejected"
    /\ ViolatedRules(yamlValue) = {4, 5, 7, 8}
    /\ parseError.field = "http.method"

(***************************************************************************)
(* The construction machine: executeRequest, on a request drawn from the   *)
(* sets below, evaluates buildUrl, buildHeaders and buildBody for its      *)
(* fetch call.  buildUrl reads url, params, auth and settings.encodeUrl;   *)
(* buildHeaders reads headers and auth; buildBody reads method and body:   *)
(* the requests vary the fields of one of the three at a time.             *)
(***************************************************************************)
MaxParams == 2
MaxHeaders == 2

\* the sequences over S of length at most n
SeqUpTo(S, n) == UNION {[1..m -> S] : m \in 0..n}

KeyK == <<"k">>
KeyJ == <<"j">>
PlainUrl == <<"h", "t", "t", "p", ":", "/", "/", "x", "/", "p">>

UrlInputs ==
    {PlainUrl,
     \* ?k=z&j=%2541&k=b : k twice, j holding the text %41
     PlainUrl \o <<"?", "k", "=", "z", "&", "j", "=", "%", "2", "5", "4", "1",
                   "&", "k", "=", "b">>,
     \* no scheme: new URL throws
     <<"x", "/", "p">>}

ParamEntries ==
    [name : {<<>>, KeyK, KeyJ},
     value : {<<"a">>, <<"%", "4", "1">>},
     type : {"query"},
     disabled : {Undef}]
    \cup {[name |-> KeyK, value |-> <<"d">>, type |-> "query",
           disabled |-> Bool(TRUE)],
          [name |-> KeyK, value |-> <<"f">>, type |-> "query",
           disabled |-> Bool(FALSE)],
          [name |-> KeyJ, value |-> <<"p">>, type |-> "path", disabled |-> Undef]}

QueryAuths ==
    {[type |-> "none"],
     [type |-> "apikey", key |-> KeyK, value |-> <<"v", " ", "&">>,
      placement |-> "query"],
     [type |-> "apikey", key |-> <<>>, value |-> <<"v">>, placement |-> "query"],
     [type |-> "apikey", key |-> KeyK, value |-> <<"v">>, placement |-> "header"]}

HeaderEntries ==
    [name : {<<>>, <<"X", "-", "A">>, <<"x", "-", "a">>,
             <<"a", "u", "t", "h", "o", "r", "i", "z", "a", "t", "i", "o", "n">>},
     value : {<<"1">>, <<"2">>},
     disabled : {Undef}]
    \cup {[name |-> <<"X", "-", "A">>, value |-> <<"d">>, disabled |-> Bool(TRUE)],
          [name |-> <<"x", "-", "a">>, value |-> <<"f">>, disabled |-> Bool(FALSE)],
          \* a name Headers rejects
          [name |-> <<"b", " ">>, value |-> <<"1">>, disabled |-> Undef]}

HeaderAuths ==
    {[type |-> "none"],
     [type |-> "inherit"],
     [type |-> "bearer", token |-> <<>>],
     [type |-> "bearer", token |-> <<"t">>],
     [type |-> "basic", username |-> <<"j">>, password |-> <<"s">>],
     [type |-> "basic", username |-> <<Euro>>, password |-> <<>>],
     [type |-> "apikey", key |-> <<"X", "-", "a">>, value |-> <<"v">>,
      placement |-> "header"],
     [type |-> "apikey", key |-> <<>>, value |-> <<"v">>, placement |-> "header"],
     [type |-> "apikey", key |-> <<"x", "-", "a">>, value |-> <<"v">>,
      placement |-> "query"]}

HttpMethods == supportedHttpMethods

BodyInputs ==
    [type : {"none"} \cup supportedBodyTypes, data : {<<>>, <<"{", "}">>}]

BaseRequest ==
    [method |-> "GET", url |-> PlainUrl, headers |-> <<>>, params |-> <<>>,
     body |-> [type |-> "none", data |-> <<>>], auth |-> [type |-> "none"],
     settings |-> [encodeUrl |-> TRUE, timeout |-> 0, followRedirects |-> TRUE,
                   maxRedirects |-> 5]]

UrlRequests ==
    {[BaseRequest EXCEPT !.url = u, !.params = p, !.auth = a,
                         !.settings.encodeUrl = e] :
        u \in UrlInputs, p \in SeqUpTo(ParamEntries, MaxParams),
        a \in QueryAuths, e \in BOOLEAN}

HeaderRequests ==
    {[BaseRequest EXCEPT !.headers = h, !.auth = a] :
        h \in SeqUpTo(HeaderEntries, MaxHeaders), a \in HeaderAuths}

BodyRequests ==
    {[BaseRequest EXCEPT !.method = m, !.body = b] :
        m \in HttpMethods, b \in BodyInputs}

BuildInit ==
    /\ AdapterIdle
    /\ AppIdle
    /\ SendIdle
    /\ ExecIdle
    /\ AuthIdle
    /\ RootIdle
    /\ buildRequest \in UrlRequests \cup HeaderRequests \cup BodyRequests
    /\ buildStage = "request"
    /\ urlObject = Undef
    /\ fetchUrl = Undef
    /\ fetchHeaders = Undef
    /\ fetchBody = Undef

\* the arguments of fetch(...) in executeRequest
BuildFetchArguments ==
    /\ buildStage = "request"
    /\ buildStage' = "built"
    /\ urlObject' = AssembleUrl(buildRequest)
    /\ fetchUrl' = buildUrl(buildRequest)
    /\ fetchHeaders' = buildHeaders(buildRequest)
    /\ fetchBody' = buildBody(buildRequest)
    /\ UNCHANGED buildRequest
    /\ UNCHANGED <<adapterVars, execVars, authVars, rootVars, appVars, sendVars>>

BuildNext == BuildFetchArguments

SpecBuild == BuildInit /\ [][BuildNext]_vars

(***************************************************************************)
(* The executor machine: executeRequest calls on the event loop.  Every    *)
(* action is one run-to-completion step: the synchronous start of a call,  *)
(* a continuation after an await, or a timer callback.  The network and    *)
(* the clock are the environment.                                          *)
(***************************************************************************)
MaxClock == 2

UsersUrl == PlainUrl \o <<"?", "j", "=", "1">>

ExecRequests ==
    {\* no timeout
     [BaseRequest EXCEPT !.auth = [type |-> "bearer", token |-> <<"t">>]],
     \* a timeout, a body and an API key in the query
     [BaseRequest EXCEPT !.method = "POST", !.url = UsersUrl,
                         !.body = [type |-> "json", data |-> <<"{", "}">>],
                         !.auth = [type |-> "apikey", key |-> KeyK,
                                   value |-> <<"v">>, placement |-> "query"],
                         !.settings.timeout = 1500,
                         !.settings.followRedirects = FALSE],
     \* a negative timeout
     [BaseRequest EXCEPT !.method = "DELETE", !.settings.timeout = -1],
     \* a timeout and a url that is no URL
     [BaseRequest EXCEPT !.url = <<"x", "/", "p">>, !.settings.timeout = 1500]}

\* the messages of the transport failures fetch rejects with
TransportFailures == {"getaddrinfo ENOTFOUND", "connect ECONNREFUSED"}

TypeError(message) == Obj([name |-> Str("TypeError"), message |-> Str(message)])

\* the value thrown while the arguments of fetch are evaluated, buildUrl first
BuildError(req) ==
    IF ~buildUrl(req).ok THEN TypeError(buildUrl(req).error)
    ELSE TypeError(buildHeaders(req).error)

BuildThrows(req) == ~buildUrl(req).ok \/ ~buildHeaders(req).ok

\* timeoutMs > 0 ? setTimeout(...) : null
TimerScheduledWhenNotZero(timeoutMs) == timeoutMs # 0

TimerScheduled(timeoutMs) == timeoutMs > 0

\* a finally block that forgets the timer
KeepTimeout(handle) == handle

\* finally { if (timeoutHandle) clearTimeout(timeoutHandle) }
ClearTimeout(handle) == IF handle = "armed" THEN "cleared" ELSE handle

\* the endpoint: it answers 200 and echoes what it was sent
ServerResponse(args) ==
    [status |-> 200, statusText |-> "OK",
     headers |-> <<(<<"content-type", "application/json">>)>>,
     body |-> [method |-> args.method, url |-> args.url,
               headers |-> args.headers, body |-> args.body]]

ExecInit ==
    /\ AdapterIdle
    /\ AppIdle
    /\ SendIdle
    /\ BuildIdle
    /\ AuthIdle
    /\ RootIdle
    /\ ExecIdle

InFlight(c) == pc[c] \in {"fetching", "reading"}

\* executeRequest(request) up to its first await: the controller, the timer,
\* startedAt and the fetch call; a throw while the arguments are built runs
\* the finally block and rejects
Call(c) ==
    /\ pc[c] = "idle"
    /\ \E req \in ExecRequests :
        /\ callRequest' = [callRequest EXCEPT ![c] = req]
        /\ controllers' = [controllers EXCEPT ![c] = @ + 1]
        /\ startedAt' = [startedAt EXCEPT ![c] = now]
        /\ IF BuildThrows(req)
           THEN /\ pc' = [pc EXCEPT ![c] = "rejected"]
                /\ outcome' = [outcome EXCEPT ![c] =
                                  [ok |-> FALSE, error |-> BuildError(req)]]
                /\ cause' = [cause EXCEPT ![c] = "build"]
                /\ timer' = [timer EXCEPT ![c] =
                                ClearTimeout(IF TimerScheduled(req.settings.timeout)
                                             THEN "armed" ELSE "none")]
                /\ UNCHANGED <<attempts, fetchArgs>>
           ELSE /\ pc' = [pc EXCEPT ![c] = "fetching"]
                /\ timer' = [timer EXCEPT ![c] =
                                IF TimerScheduled(req.settings.timeout)
                                THEN "armed" ELSE "none"]
                /\ attempts' = [attempts EXCEPT ![c] = @ + 1]
                /\ fetchArgs' = [fetchArgs EXCEPT ![c] =
                                    [url |-> buildUrl(req).value,
                                     method |-> req.method,
                                     headers |-> buildHeaders(req).list,
                                     body |-> buildBody(req),
                                     redirect |-> IF req.settings.followRedirects
                                                  THEN "follow" ELSE "manual"]]
                /\ UNCHANGED <<outcome, cause>>
    /\ UNCHANGED <<signalReason, durationMs, response, now, headersAt, bodyAt,
                   abortedBy>>
    /\ UNCHANGED <<adapterVars, buildVars, authVars, rootVars, appVars, sendVars>>

\* a timeout that guards the fetch only: the timer is cleared as soon as the
\* response headers arrive
FetchResolvedClearsTimer(c) ==
    /\ pc[c] = "fetching"
    /\ signalReason[c] = Undef
    /\ response' = [response EXCEPT ![c] = ServerResponse(fetchArgs[c])]
    /\ durationMs' = [durationMs EXCEPT ![c] = now - startedAt[c]]
    /\ headersAt' = [headersAt EXCEPT ![c] = now]
    /\ pc' = [pc EXCEPT ![c] = "reading"]
    /\ timer' = [timer EXCEPT ![c] = ClearTimeout(@)]
    /\ UNCHANGED <<callRequest, controllers, signalReason, attempts,
                   fetchArgs, startedAt, outcome, now, bodyAt, abortedBy, cause>>
    /\ UNCHANGED <<adapterVars, buildVars, authVars, rootVars, appVars, sendVars>>

\* the response headers arrive: fetch resolves, durationMs is taken and
\* response.text() starts
FetchResolved(c) ==
    /\ pc[c] = "fetching"
    /\ signalReason[c] = Undef
    /\ response' = [response EXCEPT ![c] = ServerResponse(fetchArgs[c])]
    /\ durationMs' = [durationMs EXCEPT ![c] = now - startedAt[c]]
    /\ headersAt' = [headersAt EXCEPT ![c] = now]
    /\ pc' = [pc EXCEPT ![c] = "reading"]
    /\ UNCHANGED <<callRequest, controllers, signalReason, timer, attempts,
                   fetchArgs, startedAt, outcome, now, bodyAt, abortedBy, cause>>
    /\ UNCHANGED <<adapterVars, buildVars, authVars, rootVars, appVars, sendVars>>

\* the body is fully read: response.text() resolves, the result is returned
\* and the finally block runs
BodyRead(c) ==
    /\ pc[c] = "reading"
    /\ signalReason[c] = Undef
    /\ outcome' = [outcome EXCEPT ![c] =
                      [ok |-> TRUE,
                       value |-> [status |-> response[c].status,
                                  statusText |-> response[c].statusText,
                                  durationMs |-> durationMs[c],
                                  headers |-> response[c].headers,
                                  body |-> response[c].body]]]
    /\ timer' = [timer EXCEPT ![c] = ClearTimeout(@)]
    /\ bodyAt' = [bodyAt EXCEPT ![c] = now]
    /\ pc' = [pc EXCEPT ![c] = "resolved"]
    /\ UNCHANGED <<callRequest, controllers, signalReason, attempts, fetchArgs,
                   startedAt, durationMs, response, now, headersAt, abortedBy,
                   cause>>
    /\ UNCHANGED <<adapterVars, buildVars, authVars, rootVars, appVars, sendVars>>

\* a transport failure that re-issues the fetch once
TransportFailureRetried(c) ==
    /\ InFlight(c)
    /\ signalReason[c] = Undef
    /\ attempts[c] < 2
    /\ attempts' = [attempts EXCEPT ![c] = @ + 1]
    /\ pc' = [pc EXCEPT ![c] = "fetching"]
    /\ UNCHANGED <<callRequest, controllers, signalReason, timer, fetchArgs,
                   startedAt, durationMs, response, outcome, now, headersAt,
                   bodyAt, abortedBy, cause>>
    /\ UNCHANGED <<adapterVars, buildVars, authVars, rootVars, appVars, sendVars>>

\* the transport fails (DNS, connection, TLS) before the headers or during
\* the body: the awaited promise rejects, the finally block runs and the
\* error propagates
TransportFailure(c) ==
    /\ InFlight(c)
    /\ signalReason[c] = Undef
    /\ \E m \in TransportFailures :
          outcome' = [outcome EXCEPT ![c] = [ok |-> FALSE, error |-> TypeError(m)]]
    /\ cause' = [cause EXCEPT ![c] = "network"]
    /\ timer' = [timer EXCEPT ![c] = ClearTimeout(@)]
    /\ pc' = [pc EXCEPT ![c] = "rejected"]
    /\ UNCHANGED <<callRequest, controllers, signalReason, attempts, fetchArgs,
                   startedAt, durationMs, response, now, headersAt, bodyAt,
                   abortedBy>>
    /\ UNCHANGED <<adapterVars, buildVars, authVars, rootVars, appVars, sendVars>>

\* a timer callback that aborts one controller shared by all calls
TimerFireSharedController(c) ==
    /\ timer[c] = "armed"
    /\ timer' = [timer EXCEPT ![c] = "fired"]
    /\ signalReason' = [d \in Calls |->
                           IF InFlight(d) /\ signalReason[d] = Undef
                           THEN Str("Request timed out") ELSE signalReason[d]]
    /\ abortedBy' = [d \in Calls |->
                        IF InFlight(d) THEN abortedBy[d] \cup {c} ELSE abortedBy[d]]
    /\ UNCHANGED <<callRequest, pc, controllers, attempts, fetchArgs, startedAt,
                   durationMs, response, outcome, now, headersAt, bodyAt, cause>>
    /\ UNCHANGED <<adapterVars, buildVars, authVars, rootVars, appVars, sendVars>>

\* the timer callback: controller.abort("Request timed out")
TimerFire(c) ==
    /\ timer[c] = "armed"
    /\ timer' = [timer EXCEPT ![c] = "fired"]
    /\ signalReason' = [signalReason EXCEPT ![c] =
                           IF @ = Undef THEN Str("Request timed out") ELSE @]
    /\ abortedBy' = [abortedBy EXCEPT ![c] = @ \cup {c}]
    /\ UNCHANGED <<callRequest, pc, controllers, attempts, fetchArgs, startedAt,
                   durationMs, response, outcome, now, headersAt, bodyAt, cause>>
    /\ UNCHANGED <<adapterVars, buildVars, authVars, rootVars, appVars, sendVars>>

\* the aborted signal rejects the awaited fetch or body read with the abort
\* reason; the finally block runs and the reason propagates
AbortRejects(c) ==
    /\ InFlight(c)
    /\ signalReason[c] # Undef
    /\ outcome' = [outcome EXCEPT ![c] = [ok |-> FALSE, error |-> signalReason[c]]]
    /\ cause' = [cause EXCEPT ![c] = "timeout"]
    /\ timer' = [timer EXCEPT ![c] = ClearTimeout(@)]
    /\ pc' = [pc EXCEPT ![c] = "rejected"]
    /\ UNCHANGED <<callRequest, controllers, signalReason, attempts, fetchArgs,
                   startedAt, durationMs, response, now, headersAt, bodyAt,
                   abortedBy>>
    /\ UNCHANGED <<adapterVars, buildVars, authVars, rootVars, appVars, sendVars>>

\* time passes while a call is in flight
Tick ==
    /\ now < MaxClock
    /\ \E c \in Calls : InFlight(c)
    /\ now' = now + 1
    /\ UNCHANGED <<callRequest, pc, controllers, signalReason, timer, attempts,
                   fetchArgs, startedAt, durationMs, response, outcome, headersAt,
                   bodyAt, abortedBy, cause>>
    /\ UNCHANGED <<adapterVars, buildVars, authVars, rootVars, appVars, sendVars>>

ExecNext ==
    \/ \E c \in Calls : Call(c)
    \/ \E c \in Calls : FetchResolved(c)
    \/ \E c \in Calls : BodyRead(c)
    \/ \E c \in Calls : TransportFailure(c)
    \/ \E c \in Calls : TimerFire(c)
    \/ \E c \in Calls : AbortRejects(c)
    \/ Tick

Spec == ExecInit /\ [][ExecNext]_vars

\* The event loop runs every timer callback that is due and every
\* continuation whose promise has settled; the network owes nothing.
FairSpec ==
    /\ Spec
    /\ \A c \in Calls : WF_vars(TimerFire(c))
    /\ \A c \in Calls : WF_vars(AbortRejects(c))

(***************************************************************************)
(* Properties of the construction machine                                  *)
(***************************************************************************)
\* what a recipient reads for query key k in the URL string u
QueryValueIn(u, k) == SearchParamsGet(ParseQuery(ParseUrl(u).search), k)

\* the params entries that count for key k
EligibleParams(req, k) ==
    {i \in 1..Len(req.params) :
        /\ req.params[i].type = "query"
        /\ req.params[i].name # <<>>
        /\ req.params[i].name = k
        /\ req.params[i].disabled # Bool(TRUE)}

Last(S) == CHOOSE i \in S : \A j \in S : j <= i

AuthInjects(entries, k) == \E i \in 1..Len(entries) : entries[i][1] = k

AuthValue(entries, k) ==
    entries[CHOOSE i \in 1..Len(entries) : entries[i][1] = k][2]

\* the value C7 states for query key k
ExpectedQueryValue(req, k) ==
    IF AuthInjects(resolveAuth(req.auth).query, k)
    THEN Str(AuthValue(resolveAuth(req.auth).query, k))
    ELSE IF EligibleParams(req, k) # {}
    THEN Str(req.params[Last(EligibleParams(req, k))].value)
    ELSE QueryValueIn(req.url, k)

QueryKeys == {<<>>, KeyK, KeyJ, <<"A">>}

\* C7 as stated: in the URL executeRequest passes to fetch, the value of
\* every query key is auth's value, else the last enabled query param's
\* value, else what request.url carried.
QueryPrecedenceInBuiltUrl ==
    (buildStage = "built" /\ fetchUrl.ok) =>
        \A k \in QueryKeys :
            QueryValueIn(fetchUrl.value, k) = ExpectedQueryValue(buildRequest, k)

\* C7 amended: the precedence holds in the URL buildUrl assembles
\* (url.toString()), which is the URL passed to fetch when settings.encodeUrl
\* is true; with encodeUrl false the URL passed is decodeURI of it, where a
\* key or value holding a percent-escape reads back decoded.
QueryPrecedenceInAssembledUrl ==
    (buildStage = "built" /\ urlObject.ok) =>
        /\ \A k \in QueryKeys :
              SearchParamsGet(ParseQuery(urlObject.url.search), k)
                  = ExpectedQueryValue(buildRequest, k)
        /\ buildRequest.settings.encodeUrl =>
              /\ fetchUrl.ok
              /\ \A k \in QueryKeys :
                    QueryValueIn(fetchUrl.value, k)
                        = ExpectedQueryValue(buildRequest, k)

\* C7's case: auth injects k into the query, an enabled and a disabled param
\* name k too, and request.url already carried k and j.
QueryPrecedenceWitness ==
    /\ buildStage = "built"
    /\ fetchUrl.ok
    /\ buildRequest.settings.encodeUrl
    /\ AuthInjects(resolveAuth(buildRequest.auth).query, KeyK)
    /\ EligibleParams(buildRequest, KeyK) # {}
    /\ \E i \in 1..Len(buildRequest.params) :
          buildRequest.params[i].disabled = Bool(TRUE)
    /\ QueryValueIn(buildRequest.url, KeyJ) # Null
    /\ QueryValueIn(fetchUrl.value, KeyK) = Str(<<"v", " ", "&">>)
    /\ QueryValueIn(fetchUrl.value, KeyJ) = Str(<<"%", "4", "1">>)

\* the headers entries that count for the lower-cased name n
EligibleHeaders(req, n) ==
    {i \in 1..Len(req.headers) :
        /\ req.headers[i].name # <<>>
        /\ Lower(req.headers[i].name) = n
        /\ req.headers[i].disabled # Bool(TRUE)}

LowerNames(entries) == [i \in 1..Len(entries) |-> <<Lower(entries[i][1]), entries[i][2]>>]

\* the value C8 states for the header named n (compared case-insensitively)
ExpectedHeaderValue(req, n) ==
    IF AuthInjects(LowerNames(resolveAuth(req.auth).headers), n)
    THEN Str(AuthValue(LowerNames(resolveAuth(req.auth).headers), n))
    ELSE IF EligibleHeaders(req, n) # {}
    THEN Str(req.headers[Last(EligibleHeaders(req, n))].value)
    ELSE Null

\* the value the built headers send for name n, compared case-insensitively;
\* Null when none is sent
SentHeaderValue(list, n) ==
    IF \E i \in 1..Len(list) : Lower(list[i][1]) = n
    THEN Str(list[Last({i \in 1..Len(list) : Lower(list[i][1]) = n})][2])
    ELSE Null

HeaderNames(req, list) ==
    {Lower(req.headers[i].name) : i \in 1..Len(req.headers)}
    \cup {Lower(list[i][1]) : i \in 1..Len(list)}
    \cup {Lower(AuthorizationName)}

\* C8: in the headers executeRequest passes to fetch, names compare
\* case-insensitively, each name is sent once, and its value is auth's value
\* when auth injects that name, else the value of the last enabled headers
\* entry of that name; disabled and empty-name entries send nothing.
HeaderPrecedence ==
    (buildStage = "built" /\ fetchHeaders.ok) =>
        /\ \A n \in HeaderNames(buildRequest, fetchHeaders.list) :
              SentHeaderValue(fetchHeaders.list, n)
                  = ExpectedHeaderValue(buildRequest, n)
        /\ \A i, j \in 1..Len(fetchHeaders.list) :
              Lower(fetchHeaders.list[i][1]) = Lower(fetchHeaders.list[j][1])
                  => i = j

\* C8's case: headers X-A and x-a are both set and auth injects X-a.
HeaderPrecedenceWitness ==
    /\ buildStage = "built"
    /\ fetchHeaders.ok
    /\ Len(buildRequest.headers) = 2
    /\ buildRequest.headers[1].name = <<"X", "-", "A">>
    /\ buildRequest.headers[2].name = <<"x", "-", "a">>
    /\ buildRequest.headers[2].disabled = Undef
    /\ buildRequest.auth.type = "apikey"
    /\ fetchHeaders.list = <<(<<(<<"x", "-", "a">>), <<"v">>>>)>>

\* C9: no body is passed to fetch when body.type is none or the method is
\* GET or HEAD, whatever body.data holds; otherwise body.data is passed
\* unchanged.
BodyEligibility ==
    buildStage = "built" =>
        /\ (buildRequest.body.type = "none"
            \/ buildRequest.method \in {"GET", "HEAD"}) => fetchBody = Undef
        /\ (buildRequest.body.type # "none"
            /\ buildRequest.method \notin {"GET", "HEAD"})
              => fetchBody = Str(buildRequest.body.data)

\* C9's case: a HEAD request whose body.data is not empty.
BodyEligibilityWitness ==
    /\ buildStage = "built"
    /\ buildRequest.method = "HEAD"
    /\ buildRequest.body.type = "json"
    /\ buildRequest.body.data # <<>>
    /\ fetchBody = Undef

(***************************************************************************)
(* Properties of the executor machine                                      *)
(***************************************************************************)
Settled(c) == pc[c] \in {"resolved", "rejected"}

TimeoutOf(c) == callRequest[c].settings.timeout

\* C2 as stated: a call cancelled by its timeout fails with an error of kind
\* Timeout, and a transport failure fails with an error of kind NetworkFailure
\* that carries the underlying message.
FailuresAreTypedErrors ==
    \A c \in Calls :
        /\ (pc[c] = "rejected" /\ cause[c] = "timeout")
              => Prop(outcome[c].error, "kind") = Str("Timeout")
        /\ (pc[c] = "rejected" /\ cause[c] = "network")
              => /\ Prop(outcome[c].error, "kind") = Str("NetworkFailure")
                 /\ Prop(outcome[c].error, "message").s \in TransportFailures

\* C3: a call with settings.timeout > 0 that is in flight either gets its
\* response or is rejected (the timer fires, the token is aborted, the
\* promise rejects); a call with settings.timeout <= 0 has no timer and its
\* token is never aborted.
TimeoutSettlesCall ==
    /\ \A c \in Calls :
          (pc[c] = "fetching" /\ TimeoutOf(c) > 0)
              ~> (pc[c] = "rejected" \/ response[c] # Undef)
    /\ \A c \in Calls :
          (pc[c] = "reading" /\ TimeoutOf(c) > 0) ~> Settled(c)
    /\ [](\A c \in Calls :
            (pc[c] # "idle" /\ TimeoutOf(c) <= 0)
                => (timer[c] = "none" /\ signalReason[c] = Undef))

\* C3's case: one call was rejected by its timer with no response received,
\* while a call with a negative timeout is in flight with no timer.
TimeoutSettlesWitness ==
    \E c, d \in Calls :
        /\ pc[c] = "rejected" /\ cause[c] = "timeout" /\ timer[c] = "fired"
        /\ response[c] = Undef
        /\ outcome[c].error = Str("Request timed out")
        /\ pc[d] = "fetching" /\ TimeoutOf(d) < 0 /\ timer[d] = "none"

\* C4: once a call has settled, on whichever path, no timer of it is pending.
TimerClearedOnExit ==
    \A c \in Calls : Settled(c) => timer[c] # "armed"

\* C4's case: one call with a timeout resolved and another one failed in the
\* transport, both before their timers fired.
TimerClearedWitness ==
    \E c, d \in Calls :
        /\ pc[c] = "resolved" /\ timer[c] = "cleared"
        /\ pc[d] = "rejected" /\ cause[d] = "network" /\ timer[d] = "cleared"

\* what the call's own request sends
OwnFetchArgs(c) ==
    [url |-> buildUrl(callRequest[c]).value,
     method |-> callRequest[c].method,
     headers |-> buildHeaders(callRequest[c]).list,
     body |-> buildBody(callRequest[c]),
     redirect |-> IF callRequest[c].settings.followRedirects
                  THEN "follow" ELSE "manual"]

\* C5: under every interleaving of the two calls, a result's status, headers
\* and body are the endpoint's answer to the call's own request, its
\* durationMs is measured between the call's own timestamps, and a call's
\* token is aborted by no timer but its own.
CallsShareNoState ==
    \A c \in Calls :
        /\ pc[c] = "resolved" =>
              /\ outcome[c].value.status = ServerResponse(OwnFetchArgs(c)).status
              /\ outcome[c].value.headers = ServerResponse(OwnFetchArgs(c)).headers
              /\ outcome[c].value.body = ServerResponse(OwnFetchArgs(c)).body
              /\ outcome[c].value.durationMs = headersAt[c] - startedAt[c]
        /\ abortedBy[c] \subseteq {c}
        /\ signalReason[c] # Undef => timer[c] = "fired"

\* C5's case: the timer of one call has fired while the other call, on a
\* different request, is in flight and later resolves.
CallsShareNoStateWitness ==
    \E c, d \in Calls :
        /\ callRequest[c] # callRequest[d]
        /\ pc[c] = "rejected" /\ cause[c] = "timeout"
        /\ pc[d] = "resolved"
        /\ startedAt[d] < now
        /\ startedAt[c] = startedAt[d]

\* C6: a call issues at most one fetch, creates exactly one AbortController,
\* and has a timer if and only if settings.timeout > 0.
SingleAttempt ==
    \A c \in Calls :
        /\ attempts[c] <= 1
        /\ pc[c] # "idle" =>
              /\ controllers[c] = 1
              /\ timer[c] # "none" <=> TimeoutOf(c) > 0

\* C6's case: a call failed in the transport, and another was cancelled by
\* its timer; neither fetched again.
SingleAttemptWitness ==
    \E c, d \in Calls :
        /\ pc[c] = "rejected" /\ cause[c] = "network" /\ attempts[c] = 1
        /\ pc[d] = "rejected" /\ cause[d] = "timeout" /\ attempts[d] = 1

\* C10 as stated: durationMs runs from just before the dispatch to just after
\* the response body has been fully read.
DurationCoversBodyRead ==
    \A c \in Calls :
        pc[c] = "resolved" => outcome[c].value.durationMs = bodyAt[c] - startedAt[c]

(***************************************************************************)
(* The resolver machine: one resolveAuth call on an AuthConfig drawn from  *)
(* the values below (every variant; empty strings, the strings of the      *)
(* tests, strings with separators and with a character outside Latin-1).   *)
(***************************************************************************)
TokenInputs ==
    {<<>>, <<"t", "o", "k", "e", "n", "-", "1">>, <<"a", " ", "b">>, <<Euro>>}

UsernameInputs ==
    {<<>>, <<"j", "a", "m", "i", "e">>, <<"a", ":", "b">>, <<"j", Euro>>}

PasswordInputs ==
    {<<>>, <<"s", "e", "c", "r", "e", "t">>, <<":">>, <<Euro>>}

KeyInputs ==
    {<<>>, <<"a", "p", "i", "_", "k", "e", "y">>, <<"X", "-", "K">>, <<Euro>>}

ValueInputs ==
    {<<>>, <<"a", "b", "c">>, <<"a", "&", "b">>, <<Euro>>}

AuthConfigs ==
    {[type |-> "none"], [type |-> "inherit"]}
    \cup [type : {"bearer"}, token : TokenInputs]
    \cup [type : {"basic"}, username : UsernameInputs, password : PasswordInputs]
    \cup [type : {"apikey"}, key : KeyInputs, value : ValueInputs,
          placement : {"header", "query"}]

AuthInit ==
    /\ AdapterIdle
    /\ AppIdle
    /\ SendIdle
    /\ BuildIdle
    /\ ExecIdle
    /\ RootIdle
    /\ authConfig \in AuthConfigs
    /\ authStage = "config"
    /\ authResult = Undef

ResolveAuthReturns ==
    /\ authStage = "config"
    /\ resolveAuth(authConfig).ok
    /\ authStage' = "returned"
    /\ authResult' = [headers |-> resolveAuth(authConfig).headers,
                      query |-> resolveAuth(authConfig).query]
    /\ UNCHANGED authConfig
    /\ UNCHANGED <<adapterVars, buildVars, execVars, rootVars, appVars, sendVars>>

ResolveAuthThrows ==
    /\ authStage = "config"
    /\ ~resolveAuth(authConfig).ok
    /\ authStage' = "threw"
    /\ authResult' = [error |-> resolveAuth(authConfig).error]
    /\ UNCHANGED authConfig
    /\ UNCHANGED <<adapterVars, buildVars, execVars, rootVars, appVars, sendVars>>

AuthNext ==
    \/ ResolveAuthReturns
    \/ ResolveAuthThrows

SpecAuth == AuthInit /\ [][AuthNext]_vars

AuthCallEnded == authStage \in {"returned", "threw"}

NoInjection == [headers |-> <<>>, query |-> <<>>]

\* C11: resolveAuth on a bearer auth with a non-empty token returns exactly
\* one header, Authorization = "Bearer " followed by the token, and an empty
\* query; with an empty token it returns no header and no query entry.
BearerInjection ==
    (AuthCallEnded /\ authConfig.type = "bearer") =>
        /\ authStage = "returned"
        /\ authResult =
             IF authConfig.token # <<>>
             THEN [headers |-> <<(<<AuthorizationName,
                                    <<"B", "e", "a", "r", "e", "r", " ">>
                                    \o authConfig.token>>)>>,
                   query |-> <<>>]
             ELSE NoInjection

\* C11's cases: the token of the test was injected, and an empty token was
\* not.
BearerInjectionWitness ==
    /\ authStage = "returned"
    /\ authConfig = [type |-> "bearer",
                     token |-> <<"t", "o", "k", "e", "n", "-", "1">>]
    /\ authResult.headers =
         <<(<<AuthorizationName,
              <<"B", "e", "a", "r", "e", "r", " ", "t", "o", "k", "e", "n",
                "-", "1">>>>)>>

\* C12: resolveAuth on a basic auth returns, for every username and
\* password, the header Authorization = "Basic " followed by the base64
\* encoding of username:password, and no query entry.
BasicAlwaysInjects ==
    (AuthCallEnded /\ authConfig.type = "basic") =>
        /\ authStage = "returned"
        /\ authResult =
             [headers |->
                  <<(<<AuthorizationName,
                       <<"B", "a", "s", "i", "c", " ">>
                       \o Base64([i \in 1..(Len(authConfig.username) + 1
                                            + Len(authConfig.password)) |->
                                     CodeOf((authConfig.username \o <<":">>
                                             \o authConfig.password)[i])])>>)>>,
              query |-> <<>>]

\* C14: resolveAuth raises no error, whatever the AuthConfig.
ResolveAuthNeverFails ==
    authStage # "threw"

\* C13: resolveAuth on an apikey auth with a non-empty key injects exactly
\* one entry, query[key] = value when placement is query and headers[key] =
\* value otherwise; with an empty key it injects nothing.
ApiKeyInjection ==
    (AuthCallEnded /\ authConfig.type = "apikey") =>
        /\ authStage = "returned"
        /\ authResult =
             IF authConfig.key = <<>> THEN NoInjection
             ELSE IF authConfig.placement = "query"
             THEN [headers |-> <<>>,
                   query |-> <<(<<authConfig.key, authConfig.value>>)>>]
             ELSE [headers |-> <<(<<authConfig.key, authConfig.value>>)>>,
                   query |-> <<>>]

\* C13's case: the key of the test was placed in the query.
ApiKeyInjectionWitness ==
    /\ authStage = "returned"
    /\ authConfig.type = "apikey"
    /\ authConfig.placement = "query"
    /\ authResult.query =
         <<(<<(<<"a", "p", "i", "_", "k", "e", "y">>), <<"a", "b", "c">>>>)>>
    /\ authResult.headers = <<>>

(***************************************************************************)
(* The root machine: an opencollection.yml, either found on disk or        *)
(* written by serializeOpenCollectionRoot for a root document, is given to *)
(* parseOpenCollectionRoot.                                                *)
(***************************************************************************)
ApiName == <<"A", "P", "I">>

TypeNodes ==
    {YamlPlain(CollectionText), YamlQuoted(CollectionText),
     YamlPlain(<<"f", "o", "l", "d", "e", "r">>)}

NameNodes ==
    {YamlPlain(ApiName), YamlPlain(<<"M", "y", " ", "A", "P", "I", "s">>),
     YamlQuoted(<<" ">>), YamlQuoted(<<>>), YamlPlain(<<>>),
     YamlPlain(<<"1", "2", "3">>), YamlQuoted(<<"1", "2", "3">>)}

VersionNodes ==
    {YamlQuoted(DefaultVersion), YamlPlain(DefaultVersion),
     YamlPlain(<<"2">>), YamlQuoted(<<"2">>), YamlPlain(<<"v", "2">>),
     YamlQuoted(<<" ">>), YamlPlain(<<>>), YamlPlain(YamlTrueText)}

NodesFor(key) ==
    CASE key = "type" -> TypeNodes
      [] key = "name" -> NameNodes
      [] key = "version" -> VersionNodes

\* the texts found on disk: mappings holding any of the three keys, a bare
\* scalar, an empty file
RootContents ==
    {YamlScalar(YamlPlain(<<>>)), YamlScalar(YamlPlain(ApiName))}
    \cup {YamlMap(f) :
            f \in UNION {{g \in [K -> TypeNodes \cup NameNodes \cup VersionNodes] :
                             \A k \in K : g[k] \in NodesFor(k)} :
                         K \in SUBSET {"version", "name", "type"}}}

RootNames ==
    {ApiName, <<"M", "y", " ", "A", "P", "I", "s">>, <<"1", "2", "3">>,
     YamlTrueText, <<" ", "x">>, <<"~">>}

RootVersions == {DefaultVersion, <<"2">>, <<"1", ".", "0">>, <<" ">>, <<>>}

\* the valid root documents: a non-blank name, any version
RootValues ==
    [version : {Str(v) : v \in RootVersions}, name : {Str(n) : n \in RootNames},
     type : {Str(CollectionText)}]

RootInit ==
    /\ AdapterIdle
    /\ AppIdle
    /\ SendIdle
    /\ BuildIdle
    /\ ExecIdle
    /\ AuthIdle
    /\ \/ /\ rootValue \in RootValues
          /\ rootContent = Undef
          /\ rootStage = "value"
       \/ /\ rootValue = Undef
          /\ rootContent \in RootContents
          /\ rootStage = "file"
    /\ rootDocument = Undef
    /\ rootError = Undef

\* the file is written for the root document: the serializer is given its name
SerializeRoot ==
    /\ rootStage = "value"
    /\ rootStage' = "file"
    /\ rootContent' = serializeOpenCollectionRoot(rootValue.name.s)
    /\ UNCHANGED <<rootValue, rootDocument, rootError>>
    /\ UNCHANGED <<adapterVars, buildVars, execVars, authVars, appVars, sendVars>>

ParseRootReturns ==
    /\ rootStage = "file"
    /\ parseOpenCollectionRoot(rootContent).ok
    /\ rootStage' = "parsed"
    /\ rootDocument' = parseOpenCollectionRoot(rootContent).document
    /\ UNCHANGED <<rootValue, rootContent, rootError>>
    /\ UNCHANGED <<adapterVars, buildVars, execVars, authVars, appVars, sendVars>>

ParseRootThrows ==
    /\ rootStage = "file"
    /\ ~parseOpenCollectionRoot(rootContent).ok
    /\ rootStage' = "rejected"
    /\ rootError' = [message |-> parseOpenCollectionRoot(rootContent).error,
                     field |-> parseOpenCollectionRoot(rootContent).field]
    /\ UNCHANGED <<rootValue, rootContent, rootDocument>>
    /\ UNCHANGED <<adapterVars, buildVars, execVars, authVars, appVars, sendVars>>

RootNext ==
    \/ SerializeRoot
    \/ ParseRootReturns
    \/ ParseRootThrows

SpecRoot == RootInit /\ [][RootNext]_vars

\* the value the file holds under a key, undefined when the file is no mapping
Given(key) == Prop(YamlParse(rootContent), key)

IsBlankString(v) == IsString(v) /\ Trim(v.s) = <<>>

RootParseEnded == rootStage \in {"parsed", "rejected"}

RootMustFail ==
    \/ Given("type") # Str(CollectionText)
    \/ ~IsString(Given("name"))
    \/ IsBlankString(Given("name"))

\* C17 as stated: parseOpenCollectionRoot fails when type is not
\* 'collection' or name is missing, not a string or blank; otherwise it
\* returns the given name, type 'collection' and the given version, or "0.1"
\* when the version is absent or blank.
RootParseAsStated ==
    RootParseEnded =>
        IF RootMustFail THEN rootStage = "rejected"
        ELSE /\ rootStage = "parsed"
             /\ rootDocument.name = Given("name")
             /\ rootDocument.type = Str(CollectionText)
             /\ rootDocument.version =
                  IF Given("version") \in {Undef, Null}
                     \/ IsBlankString(Given("version"))
                  THEN Str(DefaultVersion)
                  ELSE Given("version")

\* C17 amended: as stated, except that the version returned is the given
\* one only when that is a non-blank string; it is "0.1" when the version is
\* absent, blank or not a string (a YAML number or boolean).
RootParse ==
    RootParseEnded =>
        IF RootMustFail THEN rootStage = "rejected"
        ELSE /\ rootStage = "parsed"
             /\ rootDocument.name = Given("name")
             /\ rootDocument.type = Str(CollectionText)
             /\ rootDocument.version =
                  IF IsString(Given("version")) /\ ~IsBlankString(Given("version"))
                  THEN Given("version")
                  ELSE Str(DefaultVersion)

\* C17's cases: a file with a blank version was read with version "0.1",
\* and so was one whose version is the number 2.
RootParseWitness ==
    /\ rootStage = "parsed"
    /\ rootValue = Undef
    /\ Given("version") \in {Str(<<" ">>), Num(<<"2">>)}
    /\ rootDocument.version = Str(DefaultVersion)
    /\ rootDocument.name = Str(ApiName)

\* C18: parsing the file written for a valid root document gives the
\* document's name, type 'collection' and the document's version.
RootRoundTrip ==
    (rootStage = "parsed" /\ rootValue # Undef) => rootDocument = rootValue


(***************************************************************************)
(* The application: App.tsx's handlers over the project held in the app    *)
(* state, services/projectStorage, and the request files the bun process   *)
(* keeps on disk.                                                          *)
(***************************************************************************)
\* String.prototype.localeCompare on names of letters, digits and spaces:
\* letters compare without regard to case first; names equal up to case
\* are ordered lower case first at the first difference
PrimaryWeight(c) == CodeOf(LowerChar(c))

RECURSIVE ComparePrimary(_, _)
ComparePrimary(a, b) ==
    IF a = <<>> /\ b = <<>> THEN 0
    ELSE IF a = <<>> THEN -1
    ELSE IF b = <<>> THEN 1
    ELSE IF PrimaryWeight(a[1]) < PrimaryWeight(b[1]) THEN -1
    ELSE IF PrimaryWeight(a[1]) > PrimaryWeight(b[1]) THEN 1
    ELSE ComparePrimary(Tail(a), Tail(b))

RECURSIVE CompareCase(_, _)
CompareCase(a, b) ==
    IF a = <<>> THEN 0
    ELSE IF a[1] = b[1] THEN CompareCase(Tail(a), Tail(b))
    ELSE IF a[1] \in UpperLetters THEN 1
    ELSE -1

localeCompare(a, b) ==
    IF ComparePrimary(a, b) # 0 THEN ComparePrimary(a, b) ELSE CompareCase(a, b)

\* the comparator of both sort calls: a.seq - b.seq || a.name.localeCompare(b.name)
CompareRequests(a, b) ==
    IF a.seq.n - b.seq.n # 0 THEN a.seq.n - b.seq.n
    ELSE localeCompare(a.name.s, b.name.s)

\* Array.prototype.sort (stable): x goes behind the entries not greater than it
RECURSIVE InsertSorted(_, _)
InsertSorted(list, x) ==
    IF list = <<>> THEN <<x>>
    ELSE IF CompareRequests(list[1], x) <= 0
    THEN <<list[1]>> \o InsertSorted(Tail(list), x)
    ELSE <<x>> \o list

RECURSIVE SortRequests(_)
SortRequests(list) ==
    IF list = <<>> THEN <<>>
    ELSE InsertSorted(SortRequests(SubSeq(list, 1, Len(list) - 1)), list[Len(list)])

\* Array.prototype.filter and map as the handlers use them
RECURSIVE FilterOutId(_, _)
FilterOutId(list, id) ==
    IF list = <<>> THEN <<>>
    ELSE IF list[1].id # id THEN <<list[1]>> \o FilterOutId(Tail(list), id)
    ELSE FilterOutId(Tail(list), id)

\* a save that re-keys the saved request by its (possibly edited) name
ReplaceRekeyed(list, payload) ==
    [i \in 1..Len(list) |->
        IF list[i].id = payload.id
        THEN [payload EXCEPT !.id = payload.name]
        ELSE list[i]]

ReplaceById(list, payload) ==
    [i \in 1..Len(list) |-> IF list[i].id = payload.id THEN payload ELSE list[i]]

\* requests[0]?.id ?? null
FirstId(list) == IF list = <<>> THEN Null ELSE list[1].id

\* requests.find((request) => request.id === id) ?? null
FindById(list, id) ==
    IF \E i \in 1..Len(list) : list[i].id = id
    THEN list[CHOOSE i \in 1..Len(list) :
                  /\ list[i].id = id
                  /\ \A j \in 1..(i - 1) : list[j].id # id]
    ELSE Null

\* toSafeFileName: trim, lower case, runs of other characters to one dash,
\* dashes at the ends removed, "new-request" when nothing is left
SafeChars == (Letters \ UpperLetters) \cup Digits

RECURSIVE Dashed(_, _)
Dashed(s, afterDash) ==
    IF s = <<>> THEN <<>>
    ELSE IF s[1] \in SafeChars THEN <<s[1]>> \o Dashed(Tail(s), FALSE)
    ELSE IF afterDash THEN Dashed(Tail(s), TRUE)
    ELSE <<"-">> \o Dashed(Tail(s), TRUE)

StripDashes(s) ==
    LET front == IF s # <<>> /\ s[1] = "-" THEN Tail(s) ELSE s
    IN  IF front # <<>> /\ front[Len(front)] = "-"
        THEN SubSeq(front, 1, Len(front) - 1)
        ELSE front

toSafeFileName(name) ==
    IF StripDashes(Dashed(Lower(Trim(name)), FALSE)) = <<>>
    THEN <<"n", "e", "w", "-", "r", "e", "q", "u", "e", "s", "t">>
    ELSE StripDashes(Dashed(Lower(Trim(name)), FALSE))

RequestsDir == <<"r", "e", "q", "u", "e", "s", "t", "s">>

\* path.join("requests", `${toSafeFileName(name)}.yml`)
RequestFilePath(name) ==
    RequestsDir \o <<"/">> \o toSafeFileName(name) \o <<".", "y", "m", "l">>

buildDefaultRequestContent(name) ==
    Obj([info |-> Obj([name |-> Str(name), type |-> Str("http"), seq |-> Num(1)]),
         http |-> Obj([method |-> Str("GET"),
                       url |-> Str("https://echo.usebruno.com/get"),
                       auth |-> Obj([type |-> Str("none")])]),
         settings |-> Obj([encodeUrl |-> Bool(TRUE), timeout |-> Num(0),
                           followRedirects |-> Bool(TRUE),
                           maxRedirects |-> Num(5)])])

\* what yaml.parse reads from the text stringify wrote for a value: the value
\* without its undefined properties
RECURSIVE WithoutUndefined(_)
WithoutUndefined(v) ==
    IF DOMAIN v = {"o"}
    THEN Obj([k \in {j \in DOMAIN v.o : v.o[j] # Undef} |->
                 WithoutUndefined(v.o[k])])
    ELSE IF DOMAIN v = {"a"}
    THEN Arr([i \in 1..Len(v.a) |-> WithoutUndefined(v.a[i])])
    ELSE v

\* serializeOpenCollectionRequest, the file content being kept as the value
\* yaml.parse reads from it
serializeOpenCollectionRequest(doc) == WithoutUndefined(doc)

\* the most requests the loaded collection is let grow to, and the most
\* handlers awaiting the bun process at a time
MaxRequests == 2
MaxInFlight == 2

ProjectRoot == "/projects/demo"
CollectionName == "demo"

\* the names typed into the create dialog and into the name field
CreateNames == {<<"A">>, <<"a", " ">>, <<" ">>}
EditNames == {<<"Z">>}

\* the request files in the order collectRequestFiles finds them
DiskOrder == <<RequestFilePath(<<"A">>), RequestFilePath(<<"B">>)>>
DiskPaths == {DiskOrder[i] : i \in 1..Len(DiskOrder)}

RequestFile(name, seq, method) ==
    serializeOpenCollectionRequest(
        Obj([info |-> Obj([name |-> Str(name), type |-> Str("http"), seq |-> seq]),
             http |-> Obj([method |-> Str(method),
                           url |-> Str("https://example.com/users")])]))

NoFiles == [path \in DiskPaths |-> Null]

\* the project folders the application is started on: one holding a request
\* B, and one whose request file the validator rejects.  The file operations of the bun
\* process succeed.
InitialDisks ==
    {[NoFiles EXCEPT ![RequestFilePath(<<"B">>)] = RequestFile(<<"B">>, Num(1), "GET")],
     [NoFiles EXCEPT ![RequestFilePath(<<"A">>)] =
                         RequestFile(<<"A">>, Num(1), "FETCH")]}

\* the bun process's openProject: the request files found, in scan order
RECURSIVE ReadFiles(_, _)
ReadFiles(files, paths) ==
    IF paths = <<>> THEN <<>>
    ELSE IF files[paths[1]] = Null THEN ReadFiles(files, Tail(paths))
    ELSE <<[filePath |-> paths[1], content |-> files[paths[1]]]>>
         \o ReadFiles(files, Tail(paths))

\* toCollection throws when parseOpenCollectionRequest rejects a file
InvalidFiles(requestFiles) ==
    {i \in 1..Len(requestFiles) :
        ~parseOpenCollectionRequest(requestFiles[i].content).ok}

toCollection(rootPath, collectionName, requestFiles) ==
    [name |-> collectionName,
     rootPath |-> rootPath,
     requests |->
        SortRequests(
            [i \in 1..Len(requestFiles) |->
                fromOpenCollectionDocument(
                    parseOpenCollectionRequest(requestFiles[i].content).document,
                    Str(requestFiles[i].filePath))])]

\* the useMemo in App: the request of the project that is selected
SelectedRequest(proj, selectedId) ==
    IF proj = Null \/ selectedId = Null THEN Null
    ELSE FindById(proj.collection.requests, selectedId)

\* selectedRequest?.id
IdOf(r) == IF r = Null THEN Undef ELSE r.id

\* the effect of useDraftRequest, which runs when selectedRequest?.id has
\* changed: the draft becomes a copy of the selected request; otherwise the
\* draft is what the handler left
DraftAfter(nextProject, nextSelectedId, draft) ==
    IF IdOf(SelectedRequest(nextProject, nextSelectedId))
       # IdOf(SelectedRequest(project, selectedRequestId))
    THEN SelectedRequest(nextProject, nextSelectedId)
    ELSE draft

WithRequests(proj, requests) ==
    [proj EXCEPT !.collection.requests = requests]

AppInit ==
    /\ AdapterIdle
    /\ SendIdle
    /\ BuildIdle
    /\ ExecIdle
    /\ AuthIdle
    /\ RootIdle
    /\ disk \in InitialDisks
    /\ project = Null
    /\ selectedRequestId = Null
    /\ draftRequest = Null
    /\ appError = Null
    /\ pendingOpen = Null
    /\ pendingCreate = Null
    /\ pendingSave = Null
    /\ pendingDelete = Null

OtherVarsUnchanged ==
    UNCHANGED <<adapterVars, buildVars, execVars, authVars, rootVars, sendVars>>

\* the handlers awaiting the bun process
InFlightHandlers ==
    {h \in {"open", "create", "save", "delete"} :
        \/ h = "open" /\ pendingOpen # Null
        \/ h = "create" /\ pendingCreate # Null
        \/ h = "save" /\ pendingSave # Null
        \/ h = "delete" /\ pendingDelete # Null}

MayStart == Cardinality(InFlightHandlers) < MaxInFlight

\* handleOpenProject up to its await
HandleOpenProject ==
    /\ pendingOpen = Null
    /\ MayStart
    /\ pendingOpen' = [rootPath |-> ProjectRoot]
    /\ appError' = Null
    /\ UNCHANGED <<disk, project, selectedRequestId, draftRequest, pendingCreate,
                   pendingSave, pendingDelete>>
    /\ OtherVarsUnchanged

\* openProject resolves: the bun process read the folder, toCollection built
\* the collection, the handler dispatches it
OpenProjectResolves ==
    /\ pendingOpen # Null
    /\ InvalidFiles(ReadFiles(disk, DiskOrder)) = {}
    /\ LET openedProject ==
               [collection |-> toCollection(pendingOpen.rootPath, CollectionName,
                                            ReadFiles(disk, DiskOrder))]
       IN  /\ project' = openedProject
           /\ selectedRequestId' = FirstId(openedProject.collection.requests)
           /\ draftRequest' =
                DraftAfter(openedProject,
                           FirstId(openedProject.collection.requests),
                           draftRequest)
    /\ pendingOpen' = Null
    /\ UNCHANGED <<disk, appError, pendingCreate, pendingSave, pendingDelete>>
    /\ OtherVarsUnchanged

\* openProject rejects: toCollection threw on the first invalid request file
OpenProjectRejects ==
    /\ pendingOpen # Null
    /\ LET requestFiles == ReadFiles(disk, DiskOrder)
       IN  /\ InvalidFiles(requestFiles) # {}
           /\ appError' =
                Str(parseOpenCollectionRequest(
                        requestFiles[CHOOSE i \in InvalidFiles(requestFiles) :
                                       \A j \in InvalidFiles(requestFiles) : i <= j]
                            .content).error)
    /\ pendingOpen' = Null
    /\ UNCHANGED <<disk, project, selectedRequestId, draftRequest, pendingCreate,
                   pendingSave, pendingDelete>>
    /\ OtherVarsUnchanged

\* handleCreateRequest up to its await
HandleCreateRequest(name) ==
    /\ project # Null
    /\ Trim(name) # <<>>
    /\ pendingCreate = Null
    /\ MayStart
    /\ Len(project.collection.requests) < MaxRequests
    /\ pendingCreate' = [project |-> project, name |-> Trim(name)]
    /\ UNCHANGED <<disk, project, selectedRequestId, draftRequest, appError,
                   pendingOpen, pendingSave, pendingDelete>>
    /\ OtherVarsUnchanged

\* createRequest resolves: the bun process wrote the default file, the
\* handler adds the request it was read into and sorts
CreateRequestResolves ==
    /\ pendingCreate # Null
    /\ LET relativePath == RequestFilePath(pendingCreate.name)
           content == serializeOpenCollectionRequest(
                          buildDefaultRequestContent(pendingCreate.name))
           newRequest == fromOpenCollectionDocument(
                             parseOpenCollectionRequest(content).document,
                             Str(relativePath))
           nextProject ==
               WithRequests(pendingCreate.project,
                            SortRequests(Append(pendingCreate.project.collection.requests,
                                                newRequest)))
       IN  /\ disk' = [disk EXCEPT ![relativePath] = content]
           /\ project' = nextProject
           /\ selectedRequestId' = newRequest.id
           /\ draftRequest' = DraftAfter(nextProject, newRequest.id, draftRequest)
    /\ pendingCreate' = Null
    /\ UNCHANGED <<appError, pendingOpen, pendingSave, pendingDelete>>
    /\ OtherVarsUnchanged

\* handleDeleteRequest up to its await
HandleDeleteRequest ==
    /\ project # Null
    /\ SelectedRequest(project, selectedRequestId) # Null
    /\ pendingDelete = Null
    /\ MayStart
    /\ pendingDelete' =
         [project |-> project,
          selectedRequest |-> SelectedRequest(project, selectedRequestId)]
    /\ UNCHANGED <<disk, project, selectedRequestId, draftRequest, appError,
                   pendingOpen, pendingCreate, pendingSave>>
    /\ OtherVarsUnchanged

\* deleteRequest resolves: the bun process removed the file, the handler
\* filters the request out
DeleteRequestResolves ==
    /\ pendingDelete # Null
    /\ LET nextRequests ==
               FilterOutId(pendingDelete.project.collection.requests,
                           pendingDelete.selectedRequest.id)
           nextProject == WithRequests(pendingDelete.project, nextRequests)
       IN  /\ disk' = [disk EXCEPT ![pendingDelete.selectedRequest.filePath.s] = Null]
           /\ project' = nextProject
           /\ selectedRequestId' = FirstId(nextRequests)
           /\ draftRequest' =
                DraftAfter(nextProject, FirstId(nextRequests), draftRequest)
    /\ pendingDelete' = Null
    /\ UNCHANGED <<appError, pendingOpen, pendingCreate, pendingSave>>
    /\ OtherVarsUnchanged

\* parseHeaders and parseParams on the text of an editor left empty (the
\* requests of this machine have no headers and no params)
parseHeaders(text) == IF text = <<>> THEN Arr(<<>>) ELSE Undef
parseParams(text) == IF text = <<>> THEN Arr(<<>>) ELSE Undef

\* ReplaceById matching on the name
\* handleSave up to its await
HandleSave ==
    /\ project # Null
    /\ draftRequest # Null
    /\ pendingSave = Null
    /\ MayStart
    /\ pendingSave' =
         [project |-> project,
          payload |-> [draftRequest EXCEPT !.headers = parseHeaders(<<>>),
                                           !.params = parseParams(<<>>)]]
    /\ appError' = Null
    /\ UNCHANGED <<disk, project, selectedRequestId, draftRequest, pendingOpen,
                   pendingCreate, pendingDelete>>
    /\ OtherVarsUnchanged

\* saveRequest resolves: the bun process wrote the file, the handler puts the
\* payload in the place of the request with its id
SaveRequestResolves ==
    /\ pendingSave # Null
    /\ LET payload == pendingSave.payload
           nextProject ==
               WithRequests(pendingSave.project,
                            ReplaceById(pendingSave.project.collection.requests,
                                        payload))
       IN  /\ disk' = [disk EXCEPT ![payload.filePath.s] =
                          serializeOpenCollectionRequest(
                              toOpenCollectionDocument(payload))]
           /\ project' = nextProject
           /\ draftRequest' = DraftAfter(nextProject, selectedRequestId, payload)
    /\ pendingSave' = Null
    /\ UNCHANGED <<selectedRequestId, appError, pendingOpen, pendingCreate,
                   pendingDelete>>
    /\ OtherVarsUnchanged

\* updateDraft from the name field
UpdateDraftName(name) ==
    /\ draftRequest # Null
    /\ draftRequest.name # Str(name)
    /\ draftRequest' = [draftRequest EXCEPT !.name = Str(name)]
    /\ UNCHANGED <<disk, project, selectedRequestId, appError, pendingOpen,
                   pendingCreate, pendingSave, pendingDelete>>
    /\ OtherVarsUnchanged

\* a click on a request of the sidebar
SelectRequest(i) ==
    /\ project # Null
    /\ i \in 1..Len(project.collection.requests)
    /\ project.collection.requests[i].id # selectedRequestId
    /\ selectedRequestId' = project.collection.requests[i].id
    /\ draftRequest' =
         DraftAfter(project, project.collection.requests[i].id, draftRequest)
    /\ UNCHANGED <<disk, project, appError, pendingOpen, pendingCreate,
                   pendingSave, pendingDelete>>
    /\ OtherVarsUnchanged

AppNext ==
    \/ HandleOpenProject
    \/ OpenProjectResolves
    \/ OpenProjectRejects
    \/ \E name \in CreateNames : HandleCreateRequest(name)
    \/ CreateRequestResolves
    \/ HandleDeleteRequest
    \/ DeleteRequestResolves
    \/ HandleSave
    \/ SaveRequestResolves
    \/ \E name \in EditNames : UpdateDraftName(name)
    \/ \E i \in 1..MaxRequests : SelectRequest(i)

SpecApp == AppInit /\ [][AppNext]_vars

LoadedRequests == IF project = Null THEN <<>> ELSE project.collection.requests

\* C19: request identity is stable: every request of the loaded collection
\* (and the draft, and the payload of a save under way) has id = filePath,
\* whatever was opened, created, edited, saved or deleted before; and a save
\* leaves at every position of the list a request with the id that was there.
RequestIdentityStable ==
    /\ [](/\ \A i \in 1..Len(LoadedRequests) :
                LoadedRequests[i].id = LoadedRequests[i].filePath
          /\ draftRequest # Null => draftRequest.id = draftRequest.filePath
          /\ pendingSave # Null =>
                pendingSave.payload.id = pendingSave.payload.filePath)
    /\ [][SaveRequestResolves =>
            /\ Len(project'.collection.requests)
                 = Len(pendingSave.project.collection.requests)
            /\ \A i \in 1..Len(pendingSave.project.collection.requests) :
                  project'.collection.requests[i].id
                  = pendingSave.project.collection.requests[i].id]_vars

\* C19's case: a renamed request was saved in place, next to a created one.
RequestIdentityWitness ==
    /\ project # Null
    /\ Len(LoadedRequests) = 2
    /\ \E i \in 1..2 :
          /\ LoadedRequests[i].name = Str(<<"Z">>)
          /\ LoadedRequests[i].id = Str(RequestFilePath(<<"A">>))
          /\ disk[RequestFilePath(<<"A">>)] # Null
          /\ Prop(Prop(disk[RequestFilePath(<<"A">>)], "info"), "name")
             = Str(<<"Z">>)

\* C20: the loaded collection's request list is ordered by seq ascending,
\* ties broken by name, after any sequence of open, create, save and delete.
RequestsOrdered ==
    \A i, j \in 1..Len(LoadedRequests) :
        i < j => CompareRequests(LoadedRequests[i], LoadedRequests[j]) <= 0

(***************************************************************************)
(* Properties of the URL passed to fetch                                   *)
(***************************************************************************)
RECURSIVE PercentDecodeFrom(_, _)
\* s from index i on with every percent-escape replaced by its character
PercentDecodeFrom(s, i) ==
    IF i > Len(s) THEN <<>>
    ELSE IF IsEscapeAt(s, i)
    THEN <<CharOf(s[i + 1], s[i + 2])>> \o PercentDecodeFrom(s, i + 3)
    ELSE <<s[i]>> \o PercentDecodeFrom(s, i + 1)

\* C25: with settings.encodeUrl true the URL passed to fetch is the assembled
\* URL as url.toString() gives it; with encodeUrl false it is the assembled
\* URL (params and auth query entries added) with every percent-escape
\* decoded, those of reserved characters (%26, %3D, %2F) included.
DispatchedUrlDecoded ==
    (buildStage = "built" /\ urlObject.ok) =>
        /\ fetchUrl.ok
        /\ fetchUrl.value =
              IF buildRequest.settings.encodeUrl
              THEN UrlToString(urlObject.url)
              ELSE PercentDecodeFrom(UrlToString(urlObject.url), 1)

(***************************************************************************)
(* The adapter machine on request files with absent fields: the load and   *)
(* save path of the adapter machine, run on documents whose optional       *)
(* fields are absent one at a time, whose auth is of every kind the parser *)
(* accepts, and whose apikey placement or param kind is not a listed one.  *)
(***************************************************************************)
AbsentInfoValues ==
    {Obj([name |-> Str("Get Users"), type |-> Str("http"), seq |-> Num(2)]),
     Obj([name |-> Str("Get Users"), type |-> Str("http")]),
     Obj([type |-> Str("http"), seq |-> Num(1)])}

AbsentHeadersValues ==
    {Undef, Arr(<<Obj([name |-> Str("Accept"), value |-> Str("*/*")])>>)}

AbsentParamsValues ==
    {Undef,
     Arr(<<Obj([name |-> Str("page"), value |-> Str("1"), type |-> Str("query")])>>),
     Arr(<<Obj([name |-> Str("page"), value |-> Str("1"), type |-> Str("body")])>>)}

AbsentBodyValues ==
    {Undef,
     Obj([type |-> Str("json")]),
     Obj([type |-> Str("text"), data |-> Str("hello")])}

AbsentAuthValues ==
    {Undef,
     Str("inherit"),
     Obj([type |-> Str("none")]),
     Obj([type |-> Str("bearer")]),
     Obj([type |-> Str("bearer"), token |-> Str("abc123")]),
     Obj([type |-> Str("basic")]),
     Obj([type |-> Str("basic"), username |-> Str("jamie")]),
     Obj([type |-> Str("basic"), password |-> Str("secret")]),
     Obj([type |-> Str("apikey")]),
     Obj([type |-> Str("apikey"), key |-> Str("api_key")]),
     Obj([type |-> Str("apikey"), value |-> Str("abc"), placement |-> Str("header")]),
     Obj([type |-> Str("apikey"), key |-> Str("api_key"), value |-> Str("abc"),
          placement |-> Str("query")]),
     Obj([type |-> Str("apikey"), key |-> Str("api_key"), value |-> Str("abc"),
          placement |-> Str("cookie")]),
     Obj([type |-> Str("digest"), username |-> Str("jamie")]),
     Obj([type |-> Str("oauth2")]),
     Obj([type |-> Str("awsv4"), key |-> Str("AKIA"), placement |-> Str("query")]),
     Obj([type |-> Str("ntlm")]),
     Obj([type |-> Str("kerberos")])}

AbsentYamlValues ==
    {Obj([info |-> i,
          http |-> Obj([method |-> Str("POST"),
                        url |-> Str("https://example.com/users"),
                        headers |-> h, params |-> p, body |-> b, auth |-> a]),
          settings |-> s]) :
        i \in AbsentInfoValues, h \in AbsentHeadersValues,
        p \in AbsentParamsValues, b \in AbsentBodyValues,
        a \in AbsentAuthValues, s \in SettingsValues}

AbsentInit ==
    /\ yamlValue \in AbsentYamlValues
    /\ filePath \in FilePaths
    /\ loadStage = "text"
    /\ document = Undef
    /\ request = Undef
    /\ savedDocument = Undef
    /\ reloadedRequest = Undef
    /\ parseError = Undef
    /\ BuildIdle
    /\ AppIdle
    /\ SendIdle
    /\ ExecIdle
    /\ AuthIdle
    /\ RootIdle

SpecAbsent == AbsentInit /\ [][AdapterNext]_vars

\* the document holds a value for key k of its object v
Present(v, k) == DOMAIN v = {"o"} /\ k \in DOMAIN v.o /\ v.o[k] # Undef

Loaded == loadStage \in {"loaded", "saved", "reloaded"}
Saved == loadStage \in {"saved", "reloaded"}

SettingsOf(v) == Prop(v, "settings")

\* the defaults C21 names, by setting
ClaimedDefaults ==
    [encodeUrl |-> Bool(TRUE), timeout |-> Num(0),
     followRedirects |-> Bool(TRUE), maxRedirects |-> Num(5)]

\* the value C21 states for field k of an auth object: the document's when
\* present, else the default
Filled(v, k, default) == IF Present(v, k) THEN v.o[k] ELSE default

\* C21: fromOpenCollectionDocument fills absent optional fields one by one
\* and keeps present values: each of the four settings is the document's
\* when present and its own default (true, 0, true, 5) when absent; an
\* absent bearer token, basic username or password is ""; an absent apikey
\* key is "x-api-key", value "" and placement header; "inherit" maps to
\* inherit, and absent or none auth to none.
FillsAbsentFields ==
    Loaded =>
        /\ \A k \in DOMAIN ClaimedDefaults :
              request.settings[k] =
                  Filled(SettingsOf(document), k, ClaimedDefaults[k])
        /\ AuthOf(document) = Str("inherit") =>
              request.auth = [type |-> Str("inherit")]
        /\ (AuthOf(document) = Undef
            \/ Prop(AuthOf(document), "type") = Str("none")) =>
              request.auth = [type |-> Str("none")]
        /\ Prop(AuthOf(document), "type") = Str("bearer") =>
              request.auth =
                  [type |-> Str("bearer"),
                   token |-> Filled(AuthOf(document), "token", Str(""))]
        /\ Prop(AuthOf(document), "type") = Str("basic") =>
              request.auth =
                  [type |-> Str("basic"),
                   username |-> Filled(AuthOf(document), "username", Str("")),
                   password |-> Filled(AuthOf(document), "password", Str(""))]
        /\ Prop(AuthOf(document), "type") = Str("apikey") =>
              /\ request.auth.type = Str("apikey")
              /\ request.auth.key
                    = Filled(AuthOf(document), "key", Str("x-api-key"))
              /\ request.auth.value = Filled(AuthOf(document), "value", Str(""))
              /\ ~Present(AuthOf(document), "placement") =>
                    request.auth.placement = Str("header")
              /\ Prop(AuthOf(document), "placement")
                    \in {Str("header"), Str("query")} =>
                    request.auth.placement = Prop(AuthOf(document), "placement")

\* C21's case: a document with some settings present and the others absent,
\* and an apikey auth with only its key, was loaded.
FillsAbsentFieldsWitness ==
    /\ Loaded
    /\ Present(SettingsOf(document), "timeout")
    /\ ~Present(SettingsOf(document), "encodeUrl")
    /\ Present(SettingsOf(document), "maxRedirects")
    /\ ~Present(SettingsOf(document), "followRedirects")
    /\ Prop(AuthOf(document), "type") = Str("apikey")
    /\ Present(AuthOf(document), "key")
    /\ ~Present(AuthOf(document), "value")
    /\ request.settings.timeout = Num(1500)
    /\ request.settings.encodeUrl = Bool(TRUE)
    /\ request.auth.value = Str("")

\* the fields of an ApiRequest, and of each auth variant
RequestFields ==
    {"id", "name", "seq", "filePath", "method", "url", "headers", "params",
     "body", "auth", "settings"}

\* C22: for every document the parser accepts and every file path, no field
\* of the request fromOpenCollectionDocument returns is undefined: id, name,
\* seq, filePath, method, url, headers, params, body type and data, the auth
\* variant with all its fields, and the four settings.
NoFieldUndefined ==
    Loaded =>
        /\ \A f \in RequestFields : request[f] # Undef
        /\ request.headers = Filled(HttpOf(document), "headers", Arr(<<>>))
        /\ request.params = Filled(HttpOf(document), "params", Arr(<<>>))
        /\ \A f \in DOMAIN request.body : request.body[f] # Undef
        /\ BodyOf(document) = Undef =>
              request.body = [type |-> Str("none"), data |-> Str("")]
        /\ \A f \in DOMAIN request.auth : request.auth[f] # Undef
        /\ \A f \in DOMAIN request.settings : request.settings[f] # Undef

\* C23: toOpenCollectionDocument writes auth inherit as the string
\* "inherit", writes no body field when body.type is none (the value is
\* undefined, and the YAML written has no body key), and copies name, seq,
\* method, url, headers, params, the other auth variants and the settings.
ToDocumentShape ==
    Saved =>
        /\ request.auth.type = Str("inherit") =>
              AuthOf(savedDocument) = Str("inherit")
        /\ request.auth.type # Str("inherit") =>
              AuthOf(savedDocument) = Obj(request.auth)
        /\ request.body.type = Str("none") =>
              /\ BodyOf(savedDocument) = Undef
              /\ "body" \notin
                    DOMAIN serializeOpenCollectionRequest(savedDocument).o.http.o
        /\ request.body.type # Str("none") =>
              BodyOf(savedDocument) = Obj(request.body)
        /\ InfoOf(savedDocument)
              = Obj([name |-> request.name, type |-> Str("http"),
                     seq |-> request.seq])
        /\ MethodOf(savedDocument) = request.method
        /\ Prop(HttpOf(savedDocument), "url") = request.url
        /\ Prop(HttpOf(savedDocument), "headers") = request.headers
        /\ Prop(HttpOf(savedDocument), "params") = request.params
        /\ SettingsOf(savedDocument) = Obj(request.settings)

\* C23's case: a request with inherit auth, no body and a header was written
\* back.
ToDocumentShapeWitness ==
    /\ loadStage = "saved"
    /\ request.auth.type = Str("inherit")
    /\ request.body.type = Str("none")
    /\ request.headers # Arr(<<>>)
    /\ AuthOf(savedDocument) = Str("inherit")

\* the values the domain model lists for an apikey placement and a param kind
ListedPlacements == {Str("header"), Str("query")}
ListedParamKinds == {Str("query"), Str("path")}

\* the document holds an enum value that is not a listed one
HoldsInvalidEnum(v) ==
    \/ /\ Prop(AuthOf(v), "type") = Str("apikey")
       /\ Present(AuthOf(v), "placement")
       /\ Prop(AuthOf(v), "placement") \notin ListedPlacements
    \/ /\ IsArray(Prop(HttpOf(v), "params"))
       /\ \E i \in 1..Len(Prop(HttpOf(v), "params").a) :
             /\ Present(Prop(HttpOf(v), "params").a[i], "type")
             /\ Prop(Prop(HttpOf(v), "params").a[i], "type")
                   \notin ListedParamKinds

\* C24: a present but invalid enum value is never replaced by a default or
\* let through: a document holding an apikey placement other than header or
\* query, or a param kind other than query or path, is not loaded.
InvalidEnumFailsLoad == Loaded => ~HoldsInvalidEnum(yamlValue)

\* the auth kinds the parser accepts and toDomainAuth has no branch for
UnmappedAuthTypes == {Str("digest"), Str("oauth2"), Str("awsv4"), Str("ntlm")}

\* C30: a document whose auth type is digest, oauth2, awsv4 or ntlm is
\* accepted and loaded as an apikey auth (key "x-api-key", value "" and
\* placement header when those fields are absent), so the request's auth
\* kind differs from the document's, and saving writes apikey back.
UnmappedAuthBecomesApiKey ==
    Prop(AuthOf(yamlValue), "type") \in UnmappedAuthTypes =>
        /\ loadStage # "rejected"
        /\ Loaded =>
              /\ request.auth.type = Str("apikey")
              /\ request.auth.type # Prop(AuthOf(document), "type")
              /\ request.auth.key
                    = Filled(AuthOf(document), "key", Str("x-api-key"))
              /\ request.auth.value = Filled(AuthOf(document), "value", Str(""))
              /\ ~Present(AuthOf(document), "placement") =>
                    request.auth.placement = Str("header")
        /\ Saved => Prop(AuthOf(savedDocument), "type") = Str("apikey")

\* C30's case: a digest document with none of the apikey fields was loaded
\* and written back.
UnmappedAuthWitness ==
    /\ loadStage = "saved"
    /\ AuthOf(document) = Obj([type |-> Str("digest"), username |-> Str("jamie")])
    /\ request.auth = [type |-> Str("apikey"), key |-> Str("x-api-key"),
                       value |-> Str(""), placement |-> Str("header")]

(***************************************************************************)
(* Properties of the execution machine: the timeout and the body read      *)
(***************************************************************************)
\* C29: the timeout governs the call up to the end of the body read: while
\* response.text() is pending the timer of a call with a timeout is still
\* set (armed, or fired), a timer that fired by then has aborted the call's
\* signal, and a call whose timer fired never returns an ExecutionResult:
\* from the body read it can only go on reading or be rejected.
TimerCoversBodyRead ==
    /\ [](\A c \in Calls :
            /\ (pc[c] = "reading" /\ TimeoutOf(c) > 0)
                  => timer[c] \in {"armed", "fired"}
            /\ (pc[c] = "reading" /\ timer[c] = "fired")
                  => signalReason[c] = Str("Request timed out")
            /\ timer[c] = "fired" => pc[c] # "resolved"
            /\ (pc[c] = "rejected" /\ cause[c] = "timeout" /\ response[c] # Undef)
                  => (~outcome[c].ok /\ outcome[c].error = Str("Request timed out")))
    /\ [][\A c \in Calls :
            (pc[c] = "reading" /\ timer[c] = "fired")
                => pc'[c] \in {"reading", "rejected"}]_vars

\* C29's case: the response headers of a call arrived, its timer fired during
\* the body read, and the call was rejected.
TimerCoversBodyReadWitness ==
    \E c \in Calls :
        /\ response[c] # Undef
        /\ TimeoutOf(c) > 0
        /\ timer[c] = "fired"
        /\ pc[c] = "rejected"
        /\ cause[c] = "timeout"

(***************************************************************************)
(* The send machine: handleSend, started from the Send button (disabled    *)
(* while state.sending) or from the keyboard shortcut (never disabled),    *)
(* on a project that was opened; executeRequest settles later, either way. *)
(***************************************************************************)
OpenedDisk ==
    [NoFiles EXCEPT ![RequestFilePath(<<"B">>)] = RequestFile(<<"B">>, Num(1), "GET")]

OpenedProject ==
    [collection |-> toCollection(ProjectRoot, CollectionName,
                                 ReadFiles(OpenedDisk, DiskOrder))]

\* the state handleOpenProject leaves
SendInit ==
    /\ AdapterIdle
    /\ BuildIdle
    /\ ExecIdle
    /\ AuthIdle
    /\ RootIdle
    /\ SendIdle
    /\ disk = OpenedDisk
    /\ project = OpenedProject
    /\ selectedRequestId = FirstId(OpenedProject.collection.requests)
    /\ draftRequest = FindById(OpenedProject.collection.requests,
                               FirstId(OpenedProject.collection.requests))
    /\ appError = Null
    /\ pendingOpen = Null
    /\ pendingCreate = Null
    /\ pendingSave = Null
    /\ pendingDelete = Null

\* handleSend up to its await
HandleSend(s) ==
    /\ draftRequest # Null
    /\ sendPc[s] # "awaiting"
    /\ sendPayload' = [sendPayload EXCEPT ![s] =
                          [draftRequest EXCEPT !.headers = parseHeaders(<<>>),
                                               !.params = parseParams(<<>>)]]
    /\ sending' = TRUE
    /\ appError' = Null
    /\ sendPc' = [sendPc EXCEPT ![s] = "awaiting"]
    /\ UNCHANGED <<sendResponse, disk, project, selectedRequestId, draftRequest,
                   pendingOpen, pendingCreate, pendingSave, pendingDelete>>
    /\ UNCHANGED <<adapterVars, buildVars, execVars, authVars, rootVars>>

\* a click on the Send button: disabled={!draftRequest || sending}
ClickSend(s) == ~sending /\ HandleSend(s)

\* Ctrl+Enter or Cmd+Enter in the keydown listener
ShortcutSend(s) == HandleSend(s)

\* the ExecutionResult of a payload
ExecutionOf(payload) ==
    [status |-> 200, statusText |-> "OK", body |-> payload.name]

\* executeRequest resolves: the result is dispatched, then the finally block
ExecuteRequestResolves(s) ==
    /\ sendPc[s] = "awaiting"
    /\ sendResponse' = ExecutionOf(sendPayload[s])
    /\ sending' = FALSE
    /\ sendPc' = [sendPc EXCEPT ![s] = "done"]
    /\ UNCHANGED <<sendPayload, appVars>>
    /\ UNCHANGED <<adapterVars, buildVars, execVars, authVars, rootVars>>

\* executeRequest rejects: the message is dispatched, then the finally block
ExecuteRequestRejects(s) ==
    /\ sendPc[s] = "awaiting"
    /\ \E m \in TransportFailures : appError' = Str(m)
    /\ sending' = FALSE
    /\ sendPc' = [sendPc EXCEPT ![s] = "done"]
    /\ UNCHANGED <<sendResponse, sendPayload, disk, project, selectedRequestId,
                   draftRequest, pendingOpen, pendingCreate, pendingSave,
                   pendingDelete>>
    /\ UNCHANGED <<adapterVars, buildVars, execVars, authVars, rootVars>>

SendNext ==
    \/ \E s \in Sends : ClickSend(s)
    \/ \E s \in Sends : ShortcutSend(s)
    \/ \E s \in Sends : ExecuteRequestResolves(s)
    \/ \E s \in Sends : ExecuteRequestRejects(s)
    \/ \E name \in EditNames \cup CreateNames : UpdateDraftName(name)

SpecSend == SendInit /\ [][SendNext]_vars

\* C28: state.sending is true in every state in which an executeRequest
\* started by handleSend has not settled, and false once all of them have,
\* also when the keyboard shortcut starts a send while another is in flight.
SendingWhileInFlight ==
    /\ (\E s \in Sends : sendPc[s] = "awaiting") => sending = TRUE
    /\ (\A s \in Sends : sendPc[s] # "awaiting") => sending = FALSE

(***************************************************************************)
(* Properties of the application machine: the ids of the loaded requests   *)
(***************************************************************************)
\* the ids of the requests of a project
IdsOf(proj) ==
    IF proj = Null THEN {}
    ELSE {proj.collection.requests[i].id :
            i \in 1..Len(proj.collection.requests)}

\* C26: after any sequence of open, create, save and delete, no two requests
\* of the loaded collection have the same id, also when two requests are
\* created with the same name or with names of the same safe file name.
NoDuplicateIds ==
    \A i, j \in 1..Len(LoadedRequests) :
        LoadedRequests[i].id = LoadedRequests[j].id => i = j

\* the step is a create that adds the request of file path
CreateAdds(path) ==
    /\ pendingCreate # Null
    /\ pendingCreate' = Null
    /\ RequestFilePath(pendingCreate.name) = path

\* the step is an open that has resolved
OpenLoads == pendingOpen # Null /\ pendingOpen' = Null /\ project' # project

\* C27: a request that handleDeleteRequest has deleted (its file is removed
\* and it is out of the loaded collection) stays out of the loaded collection
\* in every later state until a create or an open adds it again, whatever
\* handleSave or handleCreateRequest was started before the delete completed.
DeletedStaysAbsent ==
    [][\A path \in DiskPaths :
          (/\ disk[path] = Null
           /\ Str(path) \notin IdsOf(project)
           /\ Str(path) \in IdsOf(project'))
              => (CreateAdds(path) \/ OpenLoads)]_vars

====
